---- MODULE Spec2Model ----
(***************************************************************************)
(* Two-stage IMU gesture controller (src/gesture_controller.py).           *)
(*                                                                         *)
(* The model follows main_async's loop: each iteration either receives one *)
(* well-formed sample (RecvSample) or gets None from recv_one (PollTick).  *)
(*                                                                         *)
(* Time.  Every time.time() read is a read of `clock`, which never goes    *)
(* back.  One tick is a quarter of a second, so 2.0 s = 8 ticks and        *)
(* 0.5 s = 2 ticks; the 0.3 s motion window is 12 tenths of a tick and is  *)
(* compared in tenths.  One blocking call (recv_one with its 0.01 s        *)
(* timeout, one inference) moves the clock by at most one tick.            *)
(*                                                                         *)
(* Stream.  The sample source either streams or stalls: the receipt times  *)
(* of one tick are those of SamplesPerTick samples or of none.             *)
(*                                                                         *)
(* Data.  The ring buffer keeps the receipt timestamps; the 30 channel     *)
(* values of a frame are not stored.  What the code computes from them is  *)
(* an input of the iteration that uses it: the two spreads that np.std /   *)
(* np.linalg.norm give over the qualifying window of a hold check (the     *)
(* windows of two hold checks are disjoint: 0.3 s < 0.5 s), the            *)
(* probability the Stage-1 network returns, and the class the Stage-2      *)
(* network returns.  Magnitudes and probabilities are in hundredths.       *)
(***************************************************************************)
EXTENDS Integers, Sequences, FiniteSets, TLC

\* ------------------------------------------------------------------ bounds
\* A run is followed until MaxSlack ticks past the configured collection
\* time: through a collection that holds extend, its dispatch, the cooldown
\* and the next entry.
MaxSlack == 6
\* Samples received per tick while the source streams.
SamplesPerTick == 2
\* Most samples added to a ring buffer between two clears.
MaxAdds == 9
\* Most sub-window start indices of a resampled collection.
MaxWindows == 5
\* Most send_message calls made on a CommandSender.
MaxMsgs == 4
\* The main loop fed with datagrams of any length is followed for
\* NetHorizon ticks: through an entry, a hold check and a dispatch.
NetHorizon == 4
\* The run of main_async from start to exit is followed for LifeHorizon
\* ticks of its loop: through an entry and into a collection.
LifeHorizon == 3
\* Most sockets a HapticSender has created before a send call.
MaxSockets == 2
\* Most messages on the wire before an iteration, once the host is back.
MaxLate == 2
\* Most ticks between two loop iterations when the loop may be late.
MaxStep == 2
\* Stage-1 checkpoint metadata: input_shape[0], window_sec, step_sec (ticks),
\* threshold (hundredths).
T1 == 2
S1_WINDOW_SEC == 2
S1_STEP_SEC == 1
S1_THRESHOLD == 80
\* Stage-2 checkpoint metadata: seq_len.
SEQ_LEN2 == 2

\* ------------------------------------------------------- program constants
\* last_stage1_time = -1e9 (seconds), in ticks.
LAST_STAGE1_INIT == -2000000000
\* HOLD_ACCEL_THRESHOLD = 0.3, HOLD_GYRO_THRESHOLD = 0.15 (hundredths).
HOLD_ACCEL_THRESHOLD == 30
HOLD_GYRO_THRESHOLD == 15
\* HOLD_EXTEND_SEC = 2.0, hold_check_interval = 0.5 (ticks).
HOLD_EXTEND_SEC == 8
hold_check_interval == 2
\* calculate_motion_magnitude: window_sec = 0.3 (tenths of a tick),
\* len(buffer) < 5, get_recent(50), fewer than 3 qualifying samples.
MOTION_WINDOW_TENTHS == 12
MOTION_MIN_BUFFER == 5
MOTION_RECENT_N == 50
MOTION_MIN_SAMPLES == 3
\* target_fs = 50.0 (Hz).
TARGET_FS == 50
\* MSG_SIZE = 30 * 4 (bytes)
MSG_SIZE == 120
\* history_sec = max_T / target_fs * 4.0
HISTORY_FACTOR == 4

\* ----------------------------------------------------------- input domains
\* cooldown and stage2_collect_sec as configured (ticks); 10 is the default
\* collection time (2.5 s).
CooldownChoices == {2}
CollectChoices == {1, 10}
\* A configured collection longer than the first hold extension reaches
\* (--stage2_collect_sec 3.75).
LongCollectChoices == {15}
\* Source addresses of inbound datagrams.
Senders == {"10.0.0.2"}
\* Stage-1 probabilities: just below and at the threshold.
ProbChoices == {S1_THRESHOLD - 1, S1_THRESHOLD}
\* Spreads of a hold-check window: just below and at each threshold.
AccelChoices == {HOLD_ACCEL_THRESHOLD - 1, HOLD_ACCEL_THRESHOLD}
GyroChoices == {HOLD_GYRO_THRESHOLD - 1, HOLD_GYRO_THRESHOLD}
\* Stage-2 arg-max class ids: 3 is in GESTURE_TO_COMMAND, 15 is not.
ClassIds == {3, 15}
\* Stage-2 confidences of a sub-window (hundredths).
ConfChoices == {50, 95}
\* stage2_step_sec (hundredths of a second): step_sec * target_fs is 0.5,
\* 1.5, 2.5 and 3.0.
StepChoices == {1, 3, 5, 6}
GESTURE_TO_COMMAND == 0..14

\* Samples <<timestamp, frame>> added to a ring buffer on its own, and the
\* bounds of the time ranges asked of it.
RingSamples == {<<1, "a">>, <<2, "b">>}
RingTimes == 0..3

\* Python's None / float('inf') for an optional number: <<>>; a number x: <<x>>.
None == <<>>
Some(x) == <<x>>
INF == <<>>
NoIp == "None"

VARIABLES
    clock,                  \* time.time()
    timestamps,             \* IMURingBuffer.timestamps (frames has the same length)
    phone_ip,               \* HapticSender.phone_ip
    last_infer_time,        \* Stage1Detector.last_infer_time
    cooldown,               \* main_async: cooldown
    collect_cfg,            \* args.stage2_collect_sec or imu_config.get(...)
    last_stage1_time,
    stage2_pending,
    stage2_start_time,
    stage2_collect_sec,
    last_hold_check_time,
    consecutive_hold_count,
    is_holding,
    io,                     \* what the latest loop iteration read and emitted
    tick_rx,                \* the sample source: samples received in this tick
    stalled,                \* the sample source has stopped for good
    \* an IMURingBuffer driven on its own (RingSpec):
    rb_timestamps,          \* IMURingBuffer.timestamps
    rb_frames,              \* IMURingBuffer.frames
    rb_added,               \* the samples added since the last clear
    rb_out,                 \* the latest get_by_time_range call and its result
    \* a Stage2Classifier scoring one resampled collection (ClassifySpec):
    cl_scores,              \* the network's output for each start index
    cl_out,                 \* the latest sliding-window result
    \* a CommandSender driven on its own (WsSpec):
    cmd_sender,             \* CommandSender: [ws, connected]
    h_ws,                   \* its history: connections opened, calls made,
                            \* messages on the wire, events of the latest call
    \* a HapticSender driven on its own (HapticSpec):
    haptic_sender,          \* HapticSender: [socket, phone_ip]
    h_hp,                   \* sockets created so far and the latest send call
    \* the main loop and the listener thread in HapticSender.send (ThreadSpec):
    threads,                \* per thread: position in send, attempt, local sock
    h_acc,                  \* the accesses made: <<thread, field, "r" or "w">>
    \* main_async from its start to its exit (LifeSpec):
    life,                   \* where main_async is, what is open, why it left the loop
    \* a HapticReceiver and the thread it starts (RxSpec):
    haptic_receiver,                     \* [pc, stop, ws, main, last, late_conn, late_msgs]
    \* the main loop fed with datagrams of any length (NetSpec):
    h_net,                  \* the datagram of the latest iteration, and the
                            \* source of the latest datagram of MSG_SIZE bytes
    \* history, read by no action:
    h_classify,             \* classify_in_time_range calls since the last entry
    h_dispatch,             \* gesture_success / gesture_fail sends since the last entry
    h_last_dispatch,        \* the latest dispatch: [time, path, collect], or None
    h_still_run,            \* consecutive still hold checks in this phase
    h_run_emits,            \* hold_extended sends during that run
    h_phase,                \* this phase's still runs that reached two checks,
                            \* and its hold_extended sends: <<runs, sends>>
    h_last_sample,          \* receipt time of the latest sample
    h_max_gap,              \* largest gap between samples since holding was confirmed
    h_spikes,               \* the last two Stage-1 results >= threshold: <<ts, opened>>
    h_infer                 \* time of the latest Stage-1 inference of this Idle period

vars == <<clock, timestamps, phone_ip, last_infer_time, cooldown, collect_cfg,
          last_stage1_time, stage2_pending, stage2_start_time,
          stage2_collect_sec, last_hold_check_time, consecutive_hold_count,
          is_holding, io, tick_rx, stalled, h_classify, h_dispatch, h_last_dispatch,
          h_still_run, h_run_emits, h_phase, h_last_sample, h_max_gap, h_spikes,
          h_infer, rb_timestamps, rb_frames, rb_added, rb_out, cl_scores,
          cl_out, cmd_sender, h_ws, haptic_sender, h_hp, h_net, threads,
          h_acc, life, haptic_receiver>>

RingVars == <<rb_timestamps, rb_frames, rb_added, rb_out>>

ClsVars == <<cl_scores, cl_out>>

WsVars == <<cmd_sender, h_ws>>

\* The components driven on their own, which the main loop's model and the
\* models of the other components leave alone.
HapticVars == <<haptic_sender, h_hp>>

NetVars == <<h_net>>

ThreadVars == <<threads, h_acc>>

LifeVars == <<life>>

RxVars == <<haptic_receiver>>

PeripheralVars == <<WsVars, HapticVars, NetVars, ThreadVars, LifeVars, RxVars>>

\* --------------------------------------------------------- IMURingBuffer
buffer_size == HISTORY_FACTOR * (IF T1 > SEQ_LEN2 THEN T1 ELSE SEQ_LEN2)

\* An append that drops the new entry when the deque is full.
AddDropsNewest(buf, ts) ==
    IF Len(buf) >= buffer_size THEN buf ELSE Append(buf, ts)

\* deque(maxlen).append: drop the oldest entry when full.
add(buf, ts) ==
    IF Len(buf) >= buffer_size THEN Append(Tail(buf), ts) ELSE Append(buf, ts)

\* The last n timestamps (or all of them).
get_recent(buf, n) ==
    IF Len(buf) <= n THEN buf ELSE SubSeq(buf, Len(buf) - n + 1, Len(buf))

\* A range that excludes its upper bound.
get_by_half_open_range(buf, t_start, t_end) ==
    SelectSeq(buf, LAMBDA t : ~(t < t_start \/ t >= t_end))

\* A range with no upper bound.
get_since(buf, t_start, t_end) ==
    SelectSeq(buf, LAMBDA t : ~(t < t_start))

\* Entries with t_start <= ts <= t_end, in order.
get_by_time_range(buf, t_start, t_end) ==
    SelectSeq(buf, LAMBDA t : ~(t < t_start \/ t > t_end))

clear == <<>>

\* A motion measure that does not count the samples inside the window.
calculate_motion_magnitude_unmasked(buf, accel_spread, gyro_spread) ==
    IF Len(buf) < MOTION_MIN_BUFFER THEN <<INF, INF>>
    ELSE <<Some(accel_spread), Some(gyro_spread)>>

\* ------------------------------------------------ calculate_motion_magnitude
\* (accel_mag, gyro_mag) of the buffer; accel_spread and gyro_spread are what
\* np.linalg.norm(np.std(...)) gives over the qualifying frames.
calculate_motion_magnitude(buf, accel_spread, gyro_spread) ==
    IF Len(buf) < MOTION_MIN_BUFFER THEN <<INF, INF>>
    ELSE LET times == get_recent(buf, MOTION_RECENT_N) IN
         IF Len(times) < MOTION_MIN_SAMPLES THEN <<INF, INF>>
         ELSE LET now == times[Len(times)]
                  mask == {i \in DOMAIN times :
                             10 * times[i] >= 10 * now - MOTION_WINDOW_TENTHS}
              IN IF Cardinality(mask) < MOTION_MIN_SAMPLES THEN <<INF, INF>>
                 ELSE <<Some(accel_spread), Some(gyro_spread)>>

\* m < threshold for a magnitude that may be float('inf').
Below(m, threshold) == m # INF /\ m[1] < threshold

\* is_still = (accel_mag < HOLD_ACCEL_THRESHOLD) and (gyro_mag < HOLD_GYRO_THRESHOLD)
IsStill(mags) ==
    Below(mags[1], HOLD_ACCEL_THRESHOLD) /\ Below(mags[2], HOLD_GYRO_THRESHOLD)

\* A detector with no limit on its call rate.
maybe_detect_unlimited(buf, lit, current_time, p) ==
    IF Len(buf) < T1
    THEN [is_gesture |-> FALSE, prob |-> None, last_infer_time |-> lit]
    ELSE IF Len(get_by_time_range(buf, current_time - S1_WINDOW_SEC, current_time)) < 2
    THEN [is_gesture |-> FALSE, prob |-> None, last_infer_time |-> lit]
    ELSE [is_gesture |-> p >= S1_THRESHOLD, prob |-> Some(p),
          last_infer_time |-> Some(current_time)]

\* ------------------------------------------------ Stage1Detector.maybe_detect
\* p is the probability the network returns if it is run.  The result holds
\* is_gesture, prob (None when no inference ran) and the new last_infer_time.
maybe_detect(buf, lit, current_time, p) ==
    IF Len(buf) < T1
    THEN [is_gesture |-> FALSE, prob |-> None, last_infer_time |-> lit]
    ELSE IF lit # None /\ current_time - lit[1] < S1_STEP_SEC
    THEN [is_gesture |-> FALSE, prob |-> None, last_infer_time |-> lit]
    ELSE IF Len(get_by_time_range(buf, current_time - S1_WINDOW_SEC, current_time)) < 2
    THEN [is_gesture |-> FALSE, prob |-> None, last_infer_time |-> lit]
    ELSE [is_gesture |-> p >= S1_THRESHOLD, prob |-> Some(p),
          last_infer_time |-> Some(current_time)]

\* Python's round(n / m): to the nearest integer, a half to the even one.
Round(n, m) ==
    LET q == n \div m
        r == n % m
    IN IF 2 * r < m THEN q
       ELSE IF 2 * r > m THEN q + 1
       ELSE IF q % 2 = 0 THEN q ELSE q + 1

\* --------------------------------- Stage2Classifier.classify_in_time_range
\* pred is the arg-max class of the best candidate if the network is run.
\* None when fewer than 2 samples lie in the range or the resampled length
\* round(duration * target_fs) is below 2.
classify_in_time_range(buf, t_start, t_end, pred) ==
    LET times == get_by_time_range(buf, t_start, t_end)
        duration == IF t_end - t_start > 0 THEN t_end - t_start ELSE 0
        resampled_len == Round(duration * TARGET_FS, 4)
    IN IF Len(times) < 2 THEN None
       ELSE IF resampled_len < 2 THEN None
       ELSE Some(pred)

\* ------------------------------------------------------------ outputs
\* A call of CommandSender.send_* (ch = "ws") or HapticSender.send (ch =
\* "haptic").  arg: the duration of stage1_detected, the remaining value of
\* hold_extended, the class id of gesture_recognized and of its command.
WsMsg(type, arg) == [ch |-> "ws", type |-> type, arg |-> arg]
Haptic(preset) == [ch |-> "haptic", type |-> preset, arg |-> 0]

\* Sends with the haptic trigger ahead of the command record.
DispatchOutHapticFirst(res) ==
    IF res # None
    THEN <<WsMsg("gesture_recognized", res[1]), Haptic("gesture_success")>>
         \o (IF res[1] \in GESTURE_TO_COMMAND
             THEN <<WsMsg("command", res[1])>> ELSE <<>>)
    ELSE <<Haptic("gesture_fail")>>

\* Sends that stay silent when there is no result.
DispatchOutSilentFail(res) ==
    IF res # None
    THEN <<WsMsg("gesture_recognized", res[1])>>
         \o (IF res[1] \in GESTURE_TO_COMMAND
             THEN <<WsMsg("command", res[1])>> ELSE <<>>)
         \o <<Haptic("gesture_success")>>
    ELSE <<>>

\* The sends of one Stage-2 result, in program order.
DispatchOut(res) ==
    IF res # None
    THEN <<WsMsg("gesture_recognized", res[1])>>
         \o (IF res[1] \in GESTURE_TO_COMMAND
             THEN <<WsMsg("command", res[1])>> ELSE <<>>)
         \o <<Haptic("gesture_success")>>
    ELSE <<Haptic("gesture_fail")>>

\* One loop iteration as seen from outside: which path ran, the time it
\* read, the Stage-1 probability and hold-check magnitudes (None when not
\* computed), the sends in order, and the classify_in_time_range call.
Io(path, t, prob, mags, out, classify) ==
    [path |-> path, t |-> t, prob |-> prob, mags |-> mags, out |-> out,
     classify |-> classify]

\* The gesture_success / gesture_fail haptic triggers among some sends.
Dispatches(out) ==
    Cardinality({i \in DOMAIN out :
                   /\ out[i].ch = "haptic"
                   /\ out[i].type \in {"gesture_success", "gesture_fail"}})

Max(a, b) == IF a > b THEN a ELSE b

\* The last two entries of a sequence after appending x.
KeepTwo(seq, x) ==
    IF Len(seq) < 2 THEN Append(seq, x) ELSE <<seq[2], x>>

\* ---------------------------------------------------------------- Init
\* main_async up to the loop, with the collection duration configured to
\* one of durations.
Configured(durations) ==
    /\ clock = 0
    /\ timestamps = <<>>
    /\ phone_ip = NoIp
    /\ last_infer_time = None
    /\ cooldown \in CooldownChoices
    /\ collect_cfg \in durations
    /\ last_stage1_time = LAST_STAGE1_INIT
    /\ stage2_pending = FALSE
    /\ stage2_start_time = None
    /\ stage2_collect_sec = collect_cfg
    /\ last_hold_check_time = 0
    /\ consecutive_hold_count = 0
    /\ is_holding = FALSE
    /\ io = Io("start", 0, None, None, <<>>, None)
    /\ tick_rx = 0
    /\ stalled = FALSE
    /\ rb_timestamps = <<>>
    /\ rb_frames = <<>>
    /\ rb_added = <<>>
    /\ rb_out = None
    /\ cl_scores = <<>>
    /\ cl_out = None
    /\ cmd_sender = [ws |-> None, connected |-> FALSE]
    /\ h_ws = [started |-> FALSE, conns |-> 0, calls |-> 0, wire |-> <<>>,
               ev |-> <<>>]
    /\ haptic_sender = [socket |-> None, phone_ip |-> NoIp]
    /\ h_hp = [made |-> 0, call |-> None]
    /\ h_net = [dgram |-> None, wellformed_src |-> NoIp]
    /\ threads = [t \in {"main", "listener"} |->
                    [pc |-> "idle", attempt |-> 0, sock |-> None]]
    /\ h_acc = {}
    /\ life = [phase |-> "new", bind |-> "none", cause |-> "none",
               imu_open |-> FALSE, ws_open |-> FALSE, haptic_open |-> FALSE,
               rx_thread |-> "none"]
    /\ haptic_receiver = [pc |-> "off", stop |-> FALSE, ws |-> FALSE, main |-> "running",
             last |-> None, late_conn |-> 0, late_msgs |-> 0]
    /\ h_classify = 0
    /\ h_dispatch = 0
    /\ h_last_dispatch = None
    /\ h_still_run = 0
    /\ h_run_emits = 0
    /\ h_phase = <<0, 0>>
    /\ h_last_sample = None
    /\ h_max_gap = 0
    /\ h_spikes = <<>>
    /\ h_infer = None

Init == Configured(CollectChoices)

Config == /\ UNCHANGED <<cooldown, collect_cfg, stalled, RingVars, ClsVars,
                         PeripheralVars>>

\* The last clock value of a run.
Horizon == collect_cfg + MaxSlack

\* --------------------------------------------------------- sample source
\* The clock may pass to the next tick (d = 1) when this tick's samples have
\* all been received, or none, or the source has stopped; rx is the number
\* received so far.
CanAdvance(d, rx) == d = 0 \/ rx \in {0, SamplesPerTick} \/ stalled

\* Samples received in the tick after the clock moved by d.
Received(d, rx) == IF d = 0 THEN rx ELSE 0

\* What a dispatch leaves in the history variables.
Dispatched(path, done, collect, out) ==
    /\ h_classify' = h_classify + 1
    /\ h_dispatch' = h_dispatch + Dispatches(out)
    /\ h_last_dispatch' = Some([time |-> done, path |-> path, collect |-> collect])
    /\ h_infer' = None

\* ------------------------------------------------------------- PollTick
\* A poll path that never finds the deadline passed.
PollNeverDue(now) == FALSE

\* A poll path that tests the configured deadline, not the extended one.
PollDueConfigured(now) ==
    stage2_pending /\ now >= stage2_start_time[1] + collect_cfg

\* if stage2_pending: now = time.time(); if now >= start + collect
PollDue(now) ==
    stage2_pending /\ now >= stage2_start_time[1] + stage2_collect_sec

\* A poll path that dispatches and leaves stage2_pending set.
PollResetKeepsPending(done) ==
    /\ stage2_pending' = TRUE
    /\ timestamps' = clear
    /\ last_infer_time' = None
    /\ last_stage1_time' = done
    /\ UNCHANGED <<stage2_collect_sec, consecutive_hold_count, is_holding>>

\* A poll path that resets the session and starts no cooldown.
PollResetNoCooldown(done) ==
    /\ stage2_pending' = FALSE
    /\ timestamps' = clear
    /\ last_infer_time' = None
    /\ UNCHANGED <<last_stage1_time, stage2_collect_sec,
                   consecutive_hold_count, is_holding>>

\* The poll path's reset after its dispatch; done is the time.time() read
\* that starts the cooldown.
PollReset(done) ==
    /\ stage2_pending' = FALSE
    /\ timestamps' = clear
    /\ last_infer_time' = None
    /\ last_stage1_time' = done
    /\ UNCHANGED <<stage2_collect_sec, consecutive_hold_count, is_holding>>

\* recv_one returned None.  now is the time.time() read of the timeout
\* check.
PollIteration ==
    \E d \in 0..1 :
      LET now == clock + d IN
      /\ now <= Horizon
      /\ CanAdvance(d, tick_rx)
      /\ UNCHANGED <<phone_ip, stage2_start_time, last_hold_check_time,
                     h_still_run, h_run_emits, h_phase, h_last_sample, h_max_gap,
                     h_spikes>>
      /\ IF PollDue(now)
         THEN \E e \in 0..1, pred \in ClassIds :
                LET t_start == stage2_start_time[1]
                    t_end == stage2_start_time[1] + stage2_collect_sec
                    res == classify_in_time_range(timestamps, t_start, t_end, pred)
                    done == now + e
                IN /\ done <= Horizon
                   /\ CanAdvance(e, Received(d, tick_rx))
                   /\ clock' = done
                   /\ tick_rx' = Received(e, Received(d, tick_rx))
                   /\ PollReset(done)
                   /\ io' = Io("poll", now, None, None, DispatchOut(res),
                               Some(<<t_start, t_end,
                                      get_by_time_range(timestamps, t_start,
                                                        t_end)>>))
                   /\ Dispatched("poll", done, stage2_collect_sec, DispatchOut(res))
         ELSE /\ clock' = now
              /\ tick_rx' = Received(d, tick_rx)
              /\ io' = Io("poll", now, None, None, <<>>, None)
              /\ UNCHANGED <<timestamps, last_infer_time, last_stage1_time,
                             stage2_pending, stage2_collect_sec,
                             consecutive_hold_count, is_holding, h_classify,
                             h_dispatch, h_last_dispatch, h_infer>>

\* recv_one timed out: no datagram.
PollTick == PollIteration /\ Config

\* ------------------------------------------------------------ RecvSample
\* An extension added to the current collection time.
ExtendFromDeadline(ts, start) == stage2_collect_sec + HOLD_EXTEND_SEC

\* stage2_collect_sec = ts - stage2_start_time + HOLD_EXTEND_SEC
ExtendedCollectSec(ts, start) == ts - start + HOLD_EXTEND_SEC

\* A counter that motion leaves as it is.
CountKeptOnMotion(is_still, count) == IF is_still THEN count + 1 ELSE count

\* consecutive_hold_count after a hold check.
CountAfter(is_still, count) == IF is_still THEN count + 1 ELSE 0

\* A notification on every extension.
NotifyEveryExtension(extend, holding) == extend

\* if not is_holding: ... send_hold_extended(-1)
NotifyHold(extend, holding) == extend /\ ~holding

\* A reset that leaves the collected samples in the buffer.
SampleResetKeepsBuffer(done) ==
    /\ stage2_pending' = FALSE
    /\ timestamps' = timestamps
    /\ last_infer_time' = None
    /\ last_stage1_time' = done
    /\ consecutive_hold_count' = 0
    /\ is_holding' = FALSE
    /\ stage2_collect_sec' = collect_cfg

\* The sample path's reset after its dispatch.
SampleReset(done) ==
    /\ stage2_pending' = FALSE
    /\ timestamps' = clear
    /\ last_infer_time' = None
    /\ last_stage1_time' = done
    /\ consecutive_hold_count' = 0
    /\ is_holding' = FALSE
    /\ stage2_collect_sec' = collect_cfg

\* A flag that motion leaves set.
HoldingKeptOnMotion(is_still, extend, holding) == holding \/ extend

\* is_holding after a hold check: set by an extension, cleared by motion.
HoldingAfter(is_still, extend, holding) ==
    IF is_still THEN holding \/ extend ELSE FALSE

\* A hold check on every sample.
HoldCheckAlways(ts) == TRUE

\* if ts - last_hold_check_time >= hold_check_interval:
HoldCheckDue(ts) == ts - last_hold_check_time >= hold_check_interval

\* A deadline test that reads the duration as it was before the hold check.
TestedBeforeHoldCheck(before, after) == before

\* if stage2_pending and ts >= stage2_start_time + stage2_collect_sec: the
\* test comes after the hold check and reads the duration the check left.
TestedCollectSec(before, after) == after

\* The sample path while stage2_pending: the hold check, then the deadline
\* test.  buf is the buffer after imu_buffer.add(ts, values).
CollectingSample(ts, buf, rx) ==
    \E accel_spread \in AccelChoices, gyro_spread \in GyroChoices :
      LET start == stage2_start_time[1]
          due == HoldCheckDue(ts)
          mags == calculate_motion_magnitude(buf, accel_spread, gyro_spread)
          is_still == due /\ IsStill(mags)
          count == IF due THEN CountAfter(is_still, consecutive_hold_count)
                   ELSE consecutive_hold_count
          extend == is_still /\ count >= 2
          collect == IF extend THEN ExtendedCollectSec(ts, start)
                     ELSE stage2_collect_sec
          notify == NotifyHold(extend, is_holding)
          holding == IF ~due THEN is_holding
                     ELSE HoldingAfter(is_still, extend, is_holding)
          hold_out == IF notify THEN <<WsMsg("hold_extended", -1)>> ELSE <<>>
          run == IF ~due THEN h_still_run
                 ELSE IF is_still THEN h_still_run + 1 ELSE 0
          emits == IF ~due THEN h_run_emits
                   ELSE IF is_still THEN h_run_emits + Len(hold_out) ELSE 0
      IN /\ last_hold_check_time' = IF due THEN ts ELSE last_hold_check_time
         /\ UNCHANGED <<stage2_start_time, h_spikes>>
         /\ h_still_run' = run
         /\ h_run_emits' = emits
         /\ h_phase' = <<h_phase[1] + (IF h_still_run = 1 /\ run = 2
                                        THEN 1 ELSE 0),
                         h_phase[2] + Len(hold_out)>>
         /\ h_max_gap' = IF run < 2 THEN 0
                         ELSE IF h_still_run >= 2
                         THEN Max(h_max_gap, ts - h_last_sample[1]) ELSE 0
         /\ IF ts >= start + TestedCollectSec(stage2_collect_sec, collect)
            THEN \E e \in 0..1, pred \in ClassIds :
                   LET res == classify_in_time_range(buf, start, start + collect, pred)
                       done == ts + e
                   IN /\ done <= Horizon
                      /\ CanAdvance(e, rx)
                      /\ clock' = done
                      /\ tick_rx' = Received(e, rx)
                      /\ SampleReset(done)
                      /\ io' = Io("sample", ts, None,
                                  IF due THEN mags ELSE None,
                                  hold_out \o DispatchOut(res),
                                  Some(<<start, start + collect,
                                         get_by_time_range(buf, start,
                                                           start + collect)>>))
                      /\ Dispatched("sample", done, collect,
                                    hold_out \o DispatchOut(res))
            ELSE /\ clock' = ts
                 /\ tick_rx' = rx
                 /\ timestamps' = buf
                 /\ consecutive_hold_count' = count
                 /\ is_holding' = holding
                 /\ stage2_collect_sec' = collect
                 /\ io' = Io("sample", ts, None, IF due THEN mags ELSE None,
                             hold_out, None)
                 /\ UNCHANGED <<stage2_pending, last_infer_time,
                                last_stage1_time, h_classify, h_dispatch,
                                h_last_dispatch, h_infer>>

\* A cooldown measured from the start of the last collection.
InCooldownSinceStart(ts) ==
    stage2_start_time # None /\ ts - stage2_start_time[1] < cooldown

\* No cooldown at all.
NoCooldown(ts) == FALSE

\* A cooldown that ends one tick early.
InCooldownShort(ts) == ts - last_stage1_time < cooldown - 1

\* if ts - last_stage1_time < cooldown: continue
InCooldown(ts) == ts - last_stage1_time < cooldown

\* An entry that keeps the collection time the last cycle ended with.
EnterKeepsCollectSec(ts, buf) ==
    /\ timestamps' = clear
    /\ last_infer_time' = None
    /\ last_stage1_time' = ts
    /\ stage2_pending' = TRUE
    /\ stage2_start_time' = Some(ts)
    /\ consecutive_hold_count' = 0
    /\ is_holding' = FALSE
    /\ last_hold_check_time' = ts
    /\ UNCHANGED stage2_collect_sec

\* An entry that keeps the buffer, the triggering sample included.
EnterKeepsBuffer(ts, buf) ==
    /\ timestamps' = buf
    /\ last_infer_time' = None
    /\ last_stage1_time' = ts
    /\ stage2_pending' = TRUE
    /\ stage2_start_time' = Some(ts)
    /\ consecutive_hold_count' = 0
    /\ is_holding' = FALSE
    /\ last_hold_check_time' = ts
    /\ stage2_collect_sec' = collect_cfg

\* The Idle -> Collecting transition on the sample received at ts; buf is
\* the buffer that holds it.
EnterCollecting(ts, buf) ==
    /\ timestamps' = clear
    /\ last_infer_time' = None
    /\ last_stage1_time' = ts
    /\ stage2_pending' = TRUE
    /\ stage2_start_time' = Some(ts)
    /\ consecutive_hold_count' = 0
    /\ is_holding' = FALSE
    /\ last_hold_check_time' = ts
    /\ stage2_collect_sec' = collect_cfg

\* The sample path while not stage2_pending: Stage-1 entry detection, the
\* cooldown test and the Idle -> Collecting transition.
IdleSample(ts, buf, rx) ==
    \E p \in ProbChoices :
      LET det == maybe_detect(buf, last_infer_time, ts, p)
          enter == det.is_gesture /\ ~InCooldown(ts)
      IN /\ clock' = ts
         /\ tick_rx' = rx
         /\ UNCHANGED <<h_last_dispatch, h_max_gap>>
         /\ h_spikes' = IF det.is_gesture
                        THEN KeepTwo(h_spikes, <<ts, enter>>) ELSE h_spikes
         /\ IF enter
            THEN /\ EnterCollecting(ts, buf)
                 /\ io' = Io("sample", ts, det.prob, None,
                             <<WsMsg("stage1_detected", stage2_collect_sec'),
                               Haptic("stage1_detected")>>, None)
                 /\ h_classify' = 0
                 /\ h_dispatch' = 0
                 /\ h_still_run' = 0
                 /\ h_run_emits' = 0
                 /\ h_phase' = <<0, 0>>
                 /\ h_infer' = None
            ELSE /\ timestamps' = buf
                 /\ last_infer_time' = det.last_infer_time
                 /\ io' = Io("sample", ts, det.prob, None, <<>>, None)
                 /\ h_infer' = IF det.prob # None THEN Some(ts) ELSE h_infer
                 /\ UNCHANGED <<last_stage1_time, stage2_pending,
                                stage2_start_time, consecutive_hold_count,
                                is_holding, last_hold_check_time,
                                stage2_collect_sec, h_classify, h_dispatch,
                                h_still_run, h_run_emits, h_phase>>

\* An iteration whose recv_one returned (ts, values, sender_ip), for a
\* datagram from one of senders, received one of steps ticks after the
\* previous iteration.
SampleIterationBy(senders, steps) ==
    \E d \in steps, sender_ip \in senders :
      LET ts == clock + d
          buf == add(timestamps, ts)
          rx == Received(d, tick_rx) + 1
      IN /\ ts <= Horizon
         /\ ~stalled
         /\ CanAdvance(d, tick_rx)
         /\ rx <= SamplesPerTick
         /\ phone_ip' = sender_ip
         /\ h_last_sample' = Some(ts)
         /\ IF stage2_pending
            THEN CollectingSample(ts, buf, rx)
            ELSE IdleSample(ts, buf, rx)

\* An iteration whose recv_one returned (ts, values, sender_ip), for a
\* datagram from one of senders.
SampleIteration(senders) == SampleIterationBy(senders, 0..1)

\* recv_one returned (ts, values, sender_ip): a well-formed 120-byte frame.
RecvSample == SampleIteration(Senders) /\ Config

Next == PollTick \/ RecvSample

Spec == Init /\ [][Next]_vars

\* The main loop when an iteration may come two ticks after the previous
\* one, so that a sample can be stamped later than a deadline no iteration
\* has tested yet.
LateSample == SampleIterationBy(Senders, 0..MaxStep) /\ Config

LateNext == PollTick \/ LateSample

LateSpec == Init /\ [][LateNext]_vars

\* The main loop with a long configured collection.
LongSpec == Configured(LongCollectChoices) /\ [][Next]_vars

\* ------------------------------------------------------- stalled stream
\* The sample source stops during a collection: from now on recv_one times
\* out every time.
Stall ==
    /\ ~stalled
    /\ stage2_pending
    /\ stalled' = TRUE
    /\ io' = Io("stall", clock, None, None, <<>>, None)
    /\ UNCHANGED <<clock, timestamps, phone_ip, last_infer_time, cooldown,
                   collect_cfg, last_stage1_time, stage2_pending,
                   stage2_start_time, stage2_collect_sec,
                   last_hold_check_time, consecutive_hold_count, is_holding,
                   tick_rx, h_classify, h_dispatch, h_last_dispatch,
                   h_still_run, h_run_emits, h_phase, h_last_sample, h_max_gap,
                   h_spikes, h_infer, RingVars, ClsVars, PeripheralVars>>

\* A sample of a stream that is followed until its first collection ends.
FirstCycleSample == h_last_dispatch = None /\ RecvSample

StallNext == PollTick \/ FirstCycleSample \/ Stall

\* The while True loop keeps iterating: a poll iteration that can change
\* the state (read a later time, dispatch) is eventually taken.
StallSpec == Init /\ [][StallNext]_vars /\ WF_vars(PollTick)

\* ------------------------------------------------ IMURingBuffer on its own
\* The session's variables, which the ring buffer operations leave alone.
SessionVars ==
    <<clock, timestamps, phone_ip, last_infer_time, cooldown, collect_cfg,
      last_stage1_time, stage2_pending, stage2_start_time,
      stage2_collect_sec, last_hold_check_time, consecutive_hold_count,
      is_holding, io, tick_rx, stalled, h_classify, h_dispatch,
      h_last_dispatch, h_still_run, h_run_emits, h_phase, h_last_sample, h_max_gap,
      h_spikes, h_infer>>

\* The frames get_by_time_range returns: those whose timestamp is kept.
frames_by_time_range(times, frames, t_start, t_end) ==
    LET kept[i \in 0..Len(times)] ==
          IF i = 0 THEN <<>>
          ELSE IF times[i] < t_start \/ times[i] > t_end THEN kept[i - 1]
          ELSE Append(kept[i - 1], frames[i])
    IN kept[Len(times)]

\* IMURingBuffer.add(timestamp, values): one append to each deque.
RingAdd ==
    \E smp \in RingSamples :
      /\ Len(rb_added) < MaxAdds
      /\ rb_timestamps' = add(rb_timestamps, smp[1])
      /\ rb_frames' = add(rb_frames, smp[2])
      /\ rb_added' = Append(rb_added, smp)
      /\ rb_out' = None
      /\ UNCHANGED <<SessionVars, ClsVars, PeripheralVars>>

\* IMURingBuffer.clear()
RingClear ==
    /\ rb_timestamps' = clear
    /\ rb_frames' = clear
    /\ rb_added' = <<>>
    /\ rb_out' = None
    /\ UNCHANGED <<SessionVars, ClsVars, PeripheralVars>>

\* IMURingBuffer.get_by_time_range(t_start, t_end)
RingQuery ==
    \E t_start \in RingTimes, t_end \in RingTimes :
      /\ rb_out' = Some([t_start |-> t_start, t_end |-> t_end,
                         times |-> get_by_time_range(rb_timestamps, t_start, t_end),
                         frames |-> frames_by_time_range(rb_timestamps, rb_frames,
                                                         t_start, t_end)])
      /\ UNCHANGED <<rb_timestamps, rb_frames, rb_added>>
      /\ UNCHANGED <<SessionVars, ClsVars, PeripheralVars>>

RingNext == RingAdd \/ RingClear \/ RingQuery

RingSpec == Init /\ [][RingNext]_vars

\* ------------------------- Stage2Classifier over one resampled collection
\* cl_scores[k + 1] is what the network returns for the sub-window that
\* starts at index k of the resampled sequence: [pred_id, p_max].  The
\* resampled length N is the number of start indices plus seq_len - 1.
resampled_N == Len(cl_scores) + SEQ_LEN2 - 1

\* step_frames = max(1, int(round(step_sec * target_fs)))
step_frames(step_sec) == Max(1, Round(step_sec * TARGET_FS, 100))

\* A comparison that lets a later sub-window of equal confidence win.
better_or_equal(p_max, best_prob) == p_max >= best_prob

\* if p_max > best_prob
better(p_max, best_prob) == p_max > best_prob

\* for start_idx in range(0, N - win_len + 1, step_frames): best is
\* [best_id, best_prob] with the start indices scored so far.
RECURSIVE scan_windows(_, _, _, _)
scan_windows(scores, step, start_idx, best) ==
    IF start_idx >= Len(scores) THEN best
    ELSE LET w == scores[start_idx + 1]
             scored == Append(best.scored, start_idx)
         IN scan_windows(scores, step, start_idx + step,
              IF better(w.p_max, best.best_prob)
              THEN [best_id |-> Some(w.pred_id), best_prob |-> w.p_max,
                    scored |-> scored]
              ELSE [best EXCEPT !.scored = scored])

\* The part of classify_in_time_range that follows the resampling: no
\* result below 2 resampled frames, one padded window (whose output is pad)
\* below seq_len, the sliding windows otherwise.
classify_windows(scores, N, step_sec, pad) ==
    IF N < 2
    THEN [best_id |-> None, best_prob |-> -100, scored |-> <<>>]
    ELSE IF N < SEQ_LEN2
    THEN [best_id |-> Some(pad.pred_id), best_prob |-> pad.p_max,
          scored |-> <<>>]
    ELSE scan_windows(scores, step_frames(step_sec), 0,
                      [best_id |-> None, best_prob |-> -100, scored |-> <<>>])

WindowOutputs == [pred_id : ClassIds, p_max : ConfChoices]

\* The collection is one resampled frame longer: one more start index.
ClsResample ==
    \E w \in WindowOutputs :
      /\ Len(cl_scores) < MaxWindows
      /\ cl_scores' = Append(cl_scores, w)
      /\ cl_out' = None
      /\ UNCHANGED <<SessionVars, RingVars, PeripheralVars>>

\* classify_in_time_range on the collection, with a step of step_sec.
ClsClassify ==
    \E step_sec \in StepChoices, pad \in WindowOutputs :
      /\ cl_out' = Some([step_sec |-> step_sec, N |-> resampled_N,
                         res |-> classify_windows(cl_scores, resampled_N,
                                                  step_sec, pad)])
      /\ UNCHANGED <<cl_scores, SessionVars, RingVars, PeripheralVars>>

ClassifyNext == ClsResample \/ ClsClassify

ClassifySpec == Init /\ [][ClassifyNext]_vars

\* ------------------------------------------------ CommandSender on its own
\* The main loop's and the pure components' variables.
CoreVars == <<SessionVars, RingVars, ClsVars>>

WsEvent(op, ok) == [op |-> op, ok |-> ok]

\* The send events of a call.
Sends(ev) == {i \in DOMAIN ev : ev[i].op = "send"}

\* CommandSender.connect(): ok is whether websockets.connect succeeds,
\* fresh the connection it then returns.
connect(cs, ok, fresh) ==
    IF ok THEN [ws |-> Some(fresh), connected |-> TRUE]
    ELSE [cs EXCEPT !.connected = FALSE]

\* A sender that transmits the message again after a successful reconnect.
send_message_resend(cs, fresh, c1, snd, c2) ==
    LET need == ~cs.connected \/ cs.ws = None
        a == IF need THEN connect(cs, c1, fresh) ELSE cs
        ev1 == IF need THEN <<WsEvent("connect", c1)>> ELSE <<>>
    IN IF need /\ ~c1 THEN [cs |-> a, ev |-> ev1]
       ELSE IF snd THEN [cs |-> a, ev |-> Append(ev1, WsEvent("send", TRUE))]
       ELSE [cs |-> connect([a EXCEPT !.connected = FALSE], c2, fresh + 1),
             ev |-> ev1 \o <<WsEvent("send", FALSE), WsEvent("connect", c2)>>
                        \o (IF c2 THEN <<WsEvent("send", TRUE)>> ELSE <<>>)]

\* CommandSender.send_message(message): c1 is the outcome of the connect
\* made first when not connected, snd of ws.send, c2 of the connect made
\* after a failed send.  The result is the sender and the events of the call.
send_message(cs, fresh, c1, snd, c2) ==
    LET need == ~cs.connected \/ cs.ws = None
        a == IF need THEN connect(cs, c1, fresh) ELSE cs
        ev1 == IF need THEN <<WsEvent("connect", c1)>> ELSE <<>>
    IN IF need /\ ~c1 THEN [cs |-> a, ev |-> ev1]
       ELSE IF snd THEN [cs |-> a, ev |-> Append(ev1, WsEvent("send", TRUE))]
       ELSE [cs |-> connect([a EXCEPT !.connected = FALSE], c2, fresh + 1),
             ev |-> ev1 \o <<WsEvent("send", FALSE), WsEvent("connect", c2)>>]

\* The connections websockets.connect returned during a call.
Opened(ev) == Cardinality({i \in DOMAIN ev : ev[i] = WsEvent("connect", TRUE)})

\* The message msg once for every successful ws.send of a call.
OnWire(ev, msg) ==
    [i \in 1..Cardinality({j \in DOMAIN ev : ev[j] = WsEvent("send", TRUE)})
       |-> msg]

\* await cmd_sender.connect() of main_async, before the loop.
WsStartup ==
    \E ok \in BOOLEAN :
      /\ ~h_ws.started
      /\ cmd_sender' = connect(cmd_sender, ok, h_ws.conns + 1)
      /\ h_ws' = [h_ws EXCEPT !.started = TRUE,
                              !.conns = @ + (IF ok THEN 1 ELSE 0),
                              !.ev = <<WsEvent("connect", ok)>>]
      /\ UNCHANGED <<CoreVars, HapticVars, NetVars, ThreadVars, LifeVars, RxVars>>

\* One send_message call; the messages are numbered in call order.
WsSend ==
    \E c1 \in BOOLEAN, snd \in BOOLEAN, c2 \in BOOLEAN :
      LET msg == h_ws.calls + 1
          r == send_message(cmd_sender, h_ws.conns + 1, c1, snd, c2)
      IN /\ h_ws.started
         /\ h_ws.calls < MaxMsgs
         /\ cmd_sender' = r.cs
         /\ h_ws' = [h_ws EXCEPT !.calls = msg,
                                 !.conns = @ + Opened(r.ev),
                                 !.wire = @ \o OnWire(r.ev, msg),
                                 !.ev = r.ev]
         /\ UNCHANGED <<CoreVars, HapticVars, NetVars, ThreadVars, LifeVars, RxVars>>

WsNext == WsStartup \/ WsSend

WsSpec == Init /\ [][WsNext]_vars

\* ------------------------------------------------- HapticSender on its own
HAPTIC_PRESETS ==
    [n \in {"stage1_detected", "gesture_success", "gesture_fail",
            "mode_drawing", "mode_pointer", "selection_tick", "slide_change",
            "calibration_point", "calibration_done", "recording_toggle",
            "ocr_start", "ocr_complete"} |->
       CASE n = "stage1_detected" -> [intensity |-> 100, count |-> 1, duration |-> 80]
         [] n = "gesture_success" -> [intensity |-> 255, count |-> 2, duration |-> 100]
         [] n = "gesture_fail" -> [intensity |-> 150, count |-> 3, duration |-> 50]
         [] n = "mode_drawing" -> [intensity |-> 180, count |-> 1, duration |-> 120]
         [] n = "mode_pointer" -> [intensity |-> 120, count |-> 1, duration |-> 80]
         [] n = "selection_tick" -> [intensity |-> 80, count |-> 1, duration |-> 50]
         [] n = "slide_change" -> [intensity |-> 150, count |-> 1, duration |-> 80]
         [] n = "calibration_point" -> [intensity |-> 200, count |-> 1, duration |-> 60]
         [] n = "calibration_done" -> [intensity |-> 255, count |-> 2, duration |-> 150]
         [] n = "recording_toggle" -> [intensity |-> 200, count |-> 1, duration |-> 100]
         [] n = "ocr_start" -> [intensity |-> 150, count |-> 1, duration |-> 80]
         [] OTHER -> [intensity |-> 220, count |-> 2, duration |-> 80]]

\* Source addresses a HapticSender is told of.
HapticPeers == {"10.0.0.2", "10.0.0.3"}

\* Explicit (intensity, count, duration) arguments: each value just
\* outside and at both ends of its range with the others inside theirs, all
\* three too low, all three too high, and one of them missing.
ExplicitTriples ==
    {<<Some(i), Some(5), Some(100)>> : i \in {0, 1, 255, 256}}
    \cup {<<Some(100), Some(c), Some(100)>> : c \in {0, 1, 10, 11}}
    \cup {<<Some(100), Some(5), Some(d)>> : d \in {49, 50, 500, 501}}
    \cup {<<Some(-1), Some(0), Some(49)>>, <<Some(256), Some(11), Some(501)>>,
           <<None, Some(5), Some(100)>>, <<Some(100), None, Some(100)>>,
           <<Some(100), Some(5), None>>}

\* Arguments of send: a preset name (in the table or not), an explicit
\* triple, or a name that is not in the table with a triple.
SendArgs ==
    [preset_name : {Some(n) : n \in DOMAIN HAPTIC_PRESETS \cup {"unknown"}},
     intensity : {None}, count : {None}, duration : {None}]
    \cup {[preset_name |-> None, intensity |-> t[1], count |-> t[2],
            duration |-> t[3]] : t \in ExplicitTriples}
    \cup {[preset_name |-> Some("unknown"), intensity |-> Some(256),
            count |-> Some(5), duration |-> Some(100)]}

\* Outcome of the retry: sent, socket.socket() raised, sendto raised.
RetryOutcomes == {"ok", "create_fail", "send_fail"}

\* Outcome of one transmission attempt: sent, socket.socket() raised
\* OSError, sendto raised OSError, sendto raised another exception.
AttemptOutcomes == {"ok", "create_fail", "send_fail", "other"}

\* A range check that leaves the value as it is.
unclamped(lo, hi, x) == x

\* max(lo, min(hi, x))
clamp(lo, hi, x) == Max(lo, IF hi < x THEN hi ELSE x)

\* sock = self._get_socket(); sock.sendto(data, (self.phone_ip, HAPTIC_PORT)):
\* the socket cached afterwards, the calls made and how the attempt ended.
attempt(sock, fresh, outcome, data, ip) ==
    IF sock = None /\ outcome = "create_fail"
    THEN [socket |-> None, ev |-> <<[op |-> "socket", sock |-> 0, ok |-> FALSE]>>,
          sent |-> <<>>, end |-> "oserror"]
    ELSE LET sk == IF sock = None THEN fresh ELSE sock[1]
             made == IF sock = None
                     THEN <<[op |-> "socket", sock |-> sk, ok |-> TRUE]>>
                     ELSE <<>>
         IN [socket |-> Some(sk),
             ev |-> Append(made, [op |-> "sendto", sock |-> sk,
                                   ok |-> outcome = "ok"]),
             sent |-> IF outcome = "ok"
                      THEN <<[ip |-> ip, sock |-> sk, data |-> data]>>
                      ELSE <<>>,
             end |-> IF outcome = "ok" THEN "ok"
                     ELSE IF outcome = "other" THEN "error" ELSE "oserror"]

\* The sockets created during a call.
Created(ev) == Cardinality({i \in DOMAIN ev : ev[i].op = "socket" /\ ev[i].ok})

\* A send that skips the test of the peer address.
send_unchecked_peer(hs, args, a1, a2, fresh) ==
    LET first == attempt(hs.socket, fresh, "other", <<0, 0, 0>>, hs.phone_ip)
    IN [hs |-> [hs EXCEPT !.socket = first.socket], ret |-> FALSE,
        ev |-> first.ev, sent |-> <<>>]

\* A handler that retries after no failure.
never_retried(end) == FALSE

\* except OSError: the failures after which the socket is recreated.
retried(end) == end = "oserror"

\* HapticSender.send(preset_name, intensity, count, duration): a1 and a2
\* are the outcomes of the first transmission and of the retry, fresh the
\* next unused socket.  The result is the sender, the value returned, the
\* socket calls made and the datagrams sent.
send(hs, args, a1, a2, fresh) ==
    LET dropped == [hs |-> hs, ret |-> FALSE, ev |-> <<>>, sent |-> <<>>]
        use_preset == /\ args.preset_name # None
                      /\ args.preset_name[1] \in DOMAIN HAPTIC_PRESETS
    IN IF hs.phone_ip = NoIp THEN dropped
       ELSE IF /\ ~use_preset
               /\ \/ args.intensity = None
                  \/ args.count = None
                  \/ args.duration = None
       THEN dropped
       ELSE LET pr == IF use_preset THEN HAPTIC_PRESETS[args.preset_name[1]]
                      ELSE [intensity |-> args.intensity[1],
                            count |-> args.count[1],
                            duration |-> args.duration[1]]
                data == <<clamp(1, 255, pr.intensity), clamp(1, 10, pr.count),
                          clamp(50, 500, pr.duration)>>
                first == attempt(hs.socket, fresh, a1, data, hs.phone_ip)
                second == attempt(None, fresh + Created(first.ev), a2, data,
                                  hs.phone_ip)
            IN IF ~retried(first.end)
               THEN [hs |-> [hs EXCEPT !.socket = first.socket],
                     ret |-> first.end = "ok", ev |-> first.ev,
                     sent |-> first.sent]
               ELSE [hs |-> [hs EXCEPT !.socket = second.socket],
                     ret |-> second.end = "ok", ev |-> first.ev \o second.ev,
                     sent |-> second.sent]

\* HapticSender.set_phone_ip(ip)
HpSetPhoneIp ==
    \E ip \in HapticPeers :
      /\ haptic_sender' = [haptic_sender EXCEPT !.phone_ip = ip]
      /\ h_hp' = [h_hp EXCEPT !.call = None]
      /\ UNCHANGED <<CoreVars, WsVars, NetVars, ThreadVars, LifeVars, RxVars>>

\* One send call, from the main loop, the haptic-request listener or any
\* other caller.
HpSend ==
    \E args \in SendArgs, a1 \in AttemptOutcomes, a2 \in RetryOutcomes :
      LET r == send(haptic_sender, args, a1, a2, h_hp.made + 1)
      IN /\ h_hp.made < MaxSockets
         /\ haptic_sender.socket # None => a1 # "create_fail"
         /\ haptic_sender' = r.hs
         /\ h_hp' = [made |-> h_hp.made + Created(r.ev),
                     call |-> Some([args |-> args, before |-> haptic_sender,
                                    a1 |-> a1, ret |-> r.ret, ev |-> r.ev,
                                    sent |-> r.sent])]
         /\ UNCHANGED <<CoreVars, WsVars, NetVars, ThreadVars, LifeVars, RxVars>>

HapticNext == HpSetPhoneIp \/ HpSend

HapticSpec == Init /\ [][HapticNext]_vars

\* --------------------------------- the main loop fed with any datagrams
\* Lengths of inbound datagrams: one byte short, MSG_SIZE, one byte long.
DgramLens == {MSG_SIZE - 1, MSG_SIZE, MSG_SIZE + 1}
\* Their source addresses.
NetSenders == {"10.0.0.2", "10.0.0.3"}

\* IMUListener.recv_one for a datagram of len bytes: TRUE when it returns
\* (ts, values, sender_ip), FALSE when it returns None.  recvfrom(MSG_SIZE)
\* gives at most MSG_SIZE bytes: of a longer datagram it returns the first
\* MSG_SIZE bytes where the platform truncates, and raises where it does not.
recv_one(len, truncates) ==
    IF len > MSG_SIZE /\ ~truncates THEN FALSE
    ELSE LET data_len == IF len > MSG_SIZE THEN MSG_SIZE ELSE len
         IN data_len = MSG_SIZE

\* What a loop iteration of this specification leaves alone.
NetConfig ==
    UNCHANGED <<cooldown, collect_cfg, stalled, RingVars, ClsVars, WsVars,
                HapticVars, ThreadVars, LifeVars, RxVars>>

\* recv_one timed out.
NetTimeout ==
    /\ PollIteration
    /\ clock' <= NetHorizon
    /\ h_net' = [h_net EXCEPT !.dgram = None]
    /\ NetConfig

\* A datagram arrived and recv_one was called.
NetDatagram ==
    \E len \in DgramLens, src \in NetSenders, truncates \in BOOLEAN :
      /\ IF recv_one(len, truncates) THEN SampleIteration({src})
         ELSE PollIteration
      /\ clock' <= NetHorizon
      /\ h_net' = [dgram |-> Some([len |-> len, src |-> src]),
                   wellformed_src |-> IF len = MSG_SIZE THEN src
                                      ELSE h_net.wellformed_src]
      /\ NetConfig

NetNext == NetTimeout \/ NetDatagram

NetSpec == Init /\ [][NetNext]_vars

\* --------------------------- HapticSender.send run by two threads at once
\* The main loop (main_async) and the thread of HapticReceiver._run, which
\* calls haptic_sender.send from _handle_message.  Each step is one access
\* to a field of the one HapticSender both hold.
Threads == {"main", "listener"}

Access(t, field, kind) == <<t, field, kind>>

\* What a step on the HapticSender leaves alone.
ThreadFrame == UNCHANGED <<CoreVars, WsVars, NetVars, LifeVars, RxVars>>

\* A thread returns from send.
Returned == [pc |-> "idle", attempt |-> 0, sock |-> None]

\* haptic_sender.set_phone_ip(sender_ip), by the main loop.
ThSetPhoneIp ==
    \E ip \in HapticPeers :
      /\ threads["main"].pc = "idle"
      /\ haptic_sender' = [haptic_sender EXCEPT !.phone_ip = ip]
      /\ h_acc' = h_acc \cup {Access("main", "phone_ip", "r")}
                        \cup (IF haptic_sender.phone_ip # ip
                              THEN {Access("main", "phone_ip", "w")} ELSE {})
      /\ UNCHANGED <<threads, h_hp>>
      /\ ThreadFrame

\* send is called: if not self.phone_ip: return False
ThCall(t) ==
    /\ threads[t].pc = "idle"
    /\ h_hp.made < MaxSockets
    /\ threads' = [threads EXCEPT ![t] =
                     IF haptic_sender.phone_ip = NoIp THEN Returned
                     ELSE [pc |-> "get", attempt |-> 1, sock |-> None]]
    /\ h_acc' = h_acc \cup {Access(t, "phone_ip", "r")}
    /\ UNCHANGED <<haptic_sender, h_hp>>
    /\ ThreadFrame

\* _get_socket: if self._socket is None
ThCheckSocket(t) ==
    /\ threads[t].pc = "get"
    /\ threads' = [threads EXCEPT ![t].pc =
                     IF haptic_sender.socket = None THEN "create" ELSE "return"]
    /\ h_acc' = h_acc \cup {Access(t, "_socket", "r")}
    /\ UNCHANGED <<haptic_sender, h_hp>>
    /\ ThreadFrame

\* _get_socket: self._socket = socket.socket(...), which may raise OSError.
ThCreate(t) ==
    \E ok \in BOOLEAN :
      /\ threads[t].pc = "create"
      /\ IF ok
         THEN /\ haptic_sender' = [haptic_sender EXCEPT
                                     !.socket = Some(h_hp.made + 1)]
              /\ h_hp' = [h_hp EXCEPT !.made = @ + 1]
              /\ h_acc' = h_acc \cup {Access(t, "_socket", "w")}
              /\ threads' = [threads EXCEPT ![t].pc = "return"]
         ELSE /\ UNCHANGED <<haptic_sender, h_hp, h_acc>>
              /\ threads' = [threads EXCEPT ![t] =
                               IF threads[t].attempt = 1
                               THEN [@ EXCEPT !.pc = "reset"] ELSE Returned]
      /\ ThreadFrame

\* _get_socket: return self._socket
ThReturnSocket(t) ==
    /\ threads[t].pc = "return"
    /\ threads' = [threads EXCEPT ![t].pc = "sendto",
                                  ![t].sock = haptic_sender.socket]
    /\ h_acc' = h_acc \cup {Access(t, "_socket", "r")}
    /\ UNCHANGED <<haptic_sender, h_hp>>
    /\ ThreadFrame

\* sock.sendto(data, (self.phone_ip, HAPTIC_PORT)): sent, or OSError.  On a
\* sock of None the call raises AttributeError and send returns False.
ThSendto(t) ==
    \E ok \in BOOLEAN :
      /\ threads[t].pc = "sendto"
      /\ threads' = [threads EXCEPT ![t] =
                       IF threads[t].sock = None \/ ok \/ threads[t].attempt = 2
                       THEN Returned ELSE [@ EXCEPT !.pc = "reset"]]
      /\ h_acc' = h_acc \cup {Access(t, "phone_ip", "r")}
      /\ UNCHANGED <<haptic_sender, h_hp>>
      /\ ThreadFrame

\* except OSError: self._socket = None, then the retry.
ThReset(t) ==
    /\ threads[t].pc = "reset"
    /\ haptic_sender' = [haptic_sender EXCEPT !.socket = None]
    /\ threads' = [threads EXCEPT ![t] = [pc |-> "get", attempt |-> 2,
                                          sock |-> None]]
    /\ h_acc' = h_acc \cup {Access(t, "_socket", "w")}
    /\ UNCHANGED h_hp
    /\ ThreadFrame

ThreadNext ==
    \/ ThSetPhoneIp
    \/ \E t \in Threads : ThCall(t)
    \/ \E t \in Threads : ThCheckSocket(t)
    \/ \E t \in Threads : ThCreate(t)
    \/ \E t \in Threads : ThReturnSocket(t)
    \/ \E t \in Threads : ThSendto(t)
    \/ \E t \in Threads : ThReset(t)

ThreadSpec == Init /\ [][ThreadNext]_vars

\* --------------------------------------- main_async from start to exit
\* life.phase: "new" (components constructed), "connected" (after
\* cmd_sender.connect()), "started" (after haptic_receiver.start()), "loop"
\* (inside while True), "returned" (the return after a failed bind),
\* "caught" (an except clause has run), "stop1" .. "stop3" (after
\* listener.stop(), haptic_receiver.stop(), cmd_sender.close()), "done"
\* (after haptic_sender.close()), "failed" (a close step raised and the
\* exception left main_async).
\* What a step of main_async outside its loop leaves alone.
LifeFrame ==
    UNCHANGED <<CoreVars, WsVars, HapticVars, NetVars, ThreadVars, RxVars>>

\* What a loop iteration of this specification leaves alone.
LifeConfig ==
    UNCHANGED <<cooldown, collect_cfg, stalled, RingVars, ClsVars, WsVars,
                HapticVars, NetVars, ThreadVars, RxVars>>

\* await cmd_sender.connect()
LifeConnect ==
    \E ok \in BOOLEAN :
      /\ life.phase = "new"
      /\ life' = [life EXCEPT !.phase = "connected", !.ws_open = ok]
      /\ LifeFrame

\* haptic_receiver.start()
LifeStartReceiver ==
    /\ life.phase = "connected"
    /\ life' = [life EXCEPT !.phase = "started", !.rx_thread = "running"]
    /\ LifeFrame

\* if not listener.start(): return
after_failed_bind == "returned"

\* listener = IMUListener(ip, port); listener.start()
LifeBind ==
    \E ok \in BOOLEAN :
      /\ life.phase = "started"
      /\ life' = [life EXCEPT !.phase = IF ok THEN "loop" ELSE after_failed_bind,
                              !.bind = IF ok THEN "ok" ELSE "failed",
                              !.imu_open = ok]
      /\ LifeFrame

\* The outputs of one channel among those of an iteration.
OnChannel(out, ch) == {i \in DOMAIN out : out[i].ch = ch}

\* One iteration of the loop that ends without an exception.  A haptic
\* send creates the haptic socket; a command send on a closed connection
\* reconnects, and one that fails reconnects or leaves it closed.
LifeIteration ==
    /\ life.phase = "loop"
    /\ PollIteration \/ SampleIteration(Senders)
    /\ clock' <= LifeHorizon
    /\ \E ws \in BOOLEAN :
         life' = [life EXCEPT
                    !.haptic_open = @ \/ OnChannel(io'.out, "haptic") # {},
                    !.ws_open = IF OnChannel(io'.out, "ws") # {} THEN ws ELSE @]
    /\ LifeConfig

\* A handler inside the loop that logs the exception and goes on.
on_exception_resume(kind) == "loop"

\* except KeyboardInterrupt / except Exception around the while loop: the
\* loop is left.
on_exception(kind) == "caught"

\* An iteration raises: an unexpected exception, or the user's interrupt.
\* What the interrupted iteration had already assigned is read by nothing
\* afterwards.
LifeRaise ==
    \E kind \in {"exception", "interrupt"} :
      /\ life.phase = "loop"
      /\ life' = [life EXCEPT !.phase = on_exception(kind), !.cause = kind]
      /\ io' = Io("raise", clock, None, None, <<>>, None)
      /\ UNCHANGED <<clock, timestamps, phone_ip, last_infer_time,
                     last_stage1_time, stage2_pending, stage2_start_time,
                     stage2_collect_sec, last_hold_check_time,
                     consecutive_hold_count, is_holding, tick_rx, h_classify,
                     h_dispatch, h_last_dispatch, h_still_run, h_run_emits, h_phase,
                     h_last_sample, h_max_gap, h_spikes, h_infer>>
      /\ LifeConfig

\* finally: listener.stop()
LifeStopListener ==
    /\ life.phase = "caught"
    /\ life' = [life EXCEPT !.phase = "stop1", !.imu_open = FALSE]
    /\ LifeFrame

\* haptic_receiver.stop(): _stop = True and join(timeout=2.0), which
\* returns with the thread ended or still alive.
LifeStopReceiver ==
    \E joined \in BOOLEAN :
      /\ life.phase = "stop1"
      /\ life' = [life EXCEPT !.phase = "stop2",
                              !.rx_thread = IF joined THEN "stopped" ELSE "running"]
      /\ LifeFrame

\* await cmd_sender.close(): ws.close() when there is a connection; if it
\* raises, the exception leaves the finally block.
LifeCloseWs ==
    \E ok \in BOOLEAN :
      /\ life.phase = "stop2"
      /\ life' = IF ~life.ws_open \/ ok
                 THEN [life EXCEPT !.phase = "stop3", !.ws_open = FALSE]
                 ELSE [life EXCEPT !.phase = "failed"]
      /\ LifeFrame

\* haptic_sender.close()
LifeCloseHaptic ==
    /\ life.phase = "stop3"
    /\ life' = [life EXCEPT !.phase = "done", !.haptic_open = FALSE]
    /\ LifeFrame

LifeNext ==
    \/ LifeConnect
    \/ LifeStartReceiver
    \/ LifeBind
    \/ LifeIteration
    \/ LifeRaise
    \/ LifeStopListener
    \/ LifeStopReceiver
    \/ LifeCloseWs
    \/ LifeCloseHaptic

LifeSpec == Init /\ [][LifeNext]_vars

\* ------------------------------------------------------ HapticReceiver
\* The listener thread of a HapticReceiver, one step per test or blocking
\* call of _run, and the main thread calling start() and stop().
\* haptic_receiver.pc is the thread's position: "off" (not started), "outer" (at the test
\* of the outer loop), "connect" (at create_connection), "inner" (at the
\* test of the inner loop), "recv" (in ws.recv), "except" (in the handler of
\* the outer try), "sleep" (in time.sleep), "finally" (at the finally
\* clause), "ended" (_run has returned).  haptic_receiver.stop is _stop, haptic_receiver.ws whether the
\* thread's connection is open, haptic_receiver.main where the main thread is: "running",
\* "joining" (in join) or "returned" (stop() has returned).  haptic_receiver.last is the
\* message the latest step handled and the send calls it made; late_conn
\* and late_msgs count the connection attempts started and the messages
\* handled while _stop was set.

\* The messages ws.recv() returns: text that is no JSON, JSON that is no
\* object, and objects with or without "type" and "preset".
RxTypes == {None, Some("other"), Some("haptic_request")}

RxPresets == {None, Some(""), Some("mode_drawing"), Some("unknown")}

RxMsgs ==
    {[json |-> FALSE, dict |-> FALSE, type |-> None, preset |-> None],
     [json |-> TRUE, dict |-> FALSE, type |-> None, preset |-> None]}
    \cup [json : {TRUE}, dict : {TRUE}, type : RxTypes, preset : RxPresets]

\* A handler that relays whatever names a preset.
relayed_any_type(msg) ==
    IF ~msg.json \/ ~msg.dict THEN None
    ELSE IF msg.preset = None \/ msg.preset = Some("") THEN None
    ELSE msg.preset

\* HapticReceiver._handle_message(raw_msg): the preset it calls
\* haptic_sender.send with, or None when it makes no call.  json.loads
\* raises on text that is no JSON and msg.get on JSON that is no object;
\* both are caught here.
relayed(msg) ==
    IF ~msg.json THEN None
    ELSE IF ~msg.dict THEN None
    ELSE IF msg.type # Some("haptic_request") THEN None
    ELSE IF msg.preset = None \/ msg.preset = Some("") THEN None
    ELSE msg.preset

RxFrame == UNCHANGED <<CoreVars, WsVars, NetVars, ThreadVars, LifeVars>>

\* What a step that handles no message records.
RxQuiet(next) ==
    /\ haptic_receiver' = next
    /\ UNCHANGED HapticVars
    /\ RxFrame

\* HapticReceiver.start()
RxStart ==
    /\ haptic_receiver.pc = "off"
    /\ RxQuiet([haptic_receiver EXCEPT !.pc = "outer", !.stop = FALSE])

\* haptic_sender.set_phone_ip(addr[0]) in the main loop
RxSetPhoneIp ==
    \E ip \in HapticPeers :
      /\ haptic_receiver.main = "running"
      /\ haptic_sender.phone_ip # ip
      /\ haptic_sender' = [haptic_sender EXCEPT !.phone_ip = ip]
      /\ h_hp' = [h_hp EXCEPT !.call = None]
      /\ haptic_receiver' = [haptic_receiver EXCEPT !.last = None]
      /\ RxFrame

\* while not self._stop: (the outer loop)
RxOuterTest ==
    /\ haptic_receiver.pc = "outer"
    /\ RxQuiet([haptic_receiver EXCEPT !.pc = IF haptic_receiver.stop THEN "ended" ELSE "connect",
                          !.last = None])

\* ws = websocket.create_connection(self.ws_url, timeout=5)
RxConnect ==
    \E ok \in BOOLEAN :
      /\ haptic_receiver.pc = "connect"
      /\ RxQuiet([haptic_receiver EXCEPT !.pc = IF ok THEN "inner" ELSE "except",
                            !.ws = ok,
                            !.late_conn = IF haptic_receiver.stop THEN @ + 1 ELSE @])

\* An inner loop that does not read the stop flag.
RxInnerTestIgnoresStop ==
    /\ haptic_receiver.pc = "inner"
    /\ RxQuiet([haptic_receiver EXCEPT !.pc = "recv", !.last = None])

\* while not self._stop: (the inner loop)
RxInnerTest ==
    /\ haptic_receiver.pc = "inner"
    /\ RxQuiet([haptic_receiver EXCEPT !.pc = IF haptic_receiver.stop THEN "finally" ELSE "recv",
                          !.last = None])

\* message = ws.recv(); self._handle_message(message)
RxMessage ==
    \E msg \in RxMsgs, a1 \in AttemptOutcomes, a2 \in RetryOutcomes :
      LET preset == relayed(msg)
          args == [preset_name |-> preset, intensity |-> None,
                   count |-> None, duration |-> None]
          r == send(haptic_sender, args, a1, a2, h_hp.made + 1)
      IN /\ haptic_receiver.pc = "recv"
         /\ haptic_receiver' = [haptic_receiver EXCEPT !.pc = "inner",
                             !.last = Some([msg |-> msg,
                                            sends |-> IF preset = None
                                                      THEN 0 ELSE 1]),
                             !.late_msgs = IF haptic_receiver.stop THEN @ + 1 ELSE @]
         /\ IF preset = None
            THEN /\ a1 = "ok" /\ a2 = "ok"
                 /\ haptic_sender' = haptic_sender
                 /\ h_hp' = [h_hp EXCEPT !.call = None]
            ELSE /\ h_hp.made < MaxSockets
                 /\ haptic_sender.socket # None => a1 # "create_fail"
                 /\ haptic_sender' = r.hs
                 /\ h_hp' = [made |-> h_hp.made + Created(r.ev),
                             call |-> Some([args |-> args,
                                            before |-> haptic_sender,
                                            a1 |-> a1, ret |-> r.ret,
                                            ev |-> r.ev, sent |-> r.sent])]
         /\ RxFrame

\* ws.recv() raises: WebSocketTimeoutException (continue),
\* WebSocketConnectionClosedException (break), anything else (to the handler
\* of the outer try).
RxRecvRaises ==
    \E exc \in {"timeout", "closed", "error"} :
      /\ haptic_receiver.pc = "recv"
      /\ RxQuiet([haptic_receiver EXCEPT !.pc = CASE exc = "timeout" -> "inner"
                                     [] exc = "closed" -> "finally"
                                     [] OTHER -> "except"])

\* except Exception as e: if not self._stop: ... time.sleep(2.0)
RxExcept ==
    /\ haptic_receiver.pc = "except"
    /\ RxQuiet([haptic_receiver EXCEPT !.pc = IF haptic_receiver.stop THEN "finally" ELSE "sleep"])

\* time.sleep(2.0) returns
RxSleep ==
    /\ haptic_receiver.pc = "sleep"
    /\ RxQuiet([haptic_receiver EXCEPT !.pc = "finally"])

\* finally: if ws: ws.close()
RxFinally ==
    /\ haptic_receiver.pc = "finally"
    /\ RxQuiet([haptic_receiver EXCEPT !.pc = "outer", !.ws = FALSE])

\* HapticReceiver.stop() up to its join: self._stop = True, then
\* self._thread.join(timeout=2.0) if the thread is alive.
RxStop ==
    /\ haptic_receiver.main = "running"
    /\ haptic_receiver.pc # "off"
    /\ RxQuiet([haptic_receiver EXCEPT !.stop = TRUE,
                          !.main = IF haptic_receiver.pc = "ended" THEN "returned"
                                   ELSE "joining"])

\* join(timeout=2.0) returns: the thread has ended or the timeout has passed.
RxJoinReturns ==
    \E timed_out \in BOOLEAN :
      /\ haptic_receiver.main = "joining"
      /\ haptic_receiver.pc = "ended" \/ timed_out
      /\ RxQuiet([haptic_receiver EXCEPT !.main = "returned"])

\* The steps of the listener thread.
RxThread ==
    \/ RxOuterTest
    \/ RxConnect
    \/ RxInnerTest
    \/ RxMessage
    \/ RxRecvRaises
    \/ RxExcept
    \/ RxSleep
    \/ RxFinally

RxNext == RxStart \/ RxSetPhoneIp \/ RxStop \/ RxJoinReturns \/ RxThread

RxSpec == Init /\ [][RxNext]_vars

\* Every call of the thread returns and the join ends.
RxFairSpec == RxSpec /\ WF_vars(RxThread) /\ WF_vars(RxJoinReturns)

\* ------------------------------------------ the main loop, the host down
\* The main loop with its CommandSender: every send_* call of an iteration
\* goes through send_message.  The host goes down when the loop starts:
\* it refuses every connection and every send until the first cycle's
\* dispatch has been made, and accepts them from then on.
HostUp == h_last_dispatch # None

\* A call that lets the failure of a connect or of a send out as an
\* exception.
escapes_on_failure(ev) == \E i \in DOMAIN ev : ~ev[i].ok

\* Whether a send_message call ends with an exception: connect catches
\* what websockets.connect raises, send_message what ws.send raises.
escapes(ev) == FALSE

\* The send_message calls of one iteration, in order, up to one that
\* raises: the sender, the events, what went on the wire, the calls made.
RECURSIVE send_all(_, _, _, _)
send_all(cs, fresh, msgs, up) ==
    IF msgs = <<>>
    THEN [cs |-> cs, ev |-> <<>>, wire |-> <<>>, calls |-> 0, raised |-> FALSE]
    ELSE LET r == send_message(cs, fresh, up, up, up)
             rest == send_all(r.cs, fresh + Opened(r.ev), Tail(msgs), up)
         IN IF escapes(r.ev)
            THEN [cs |-> r.cs, ev |-> r.ev, wire |-> OnWire(r.ev, Head(msgs)),
                  calls |-> 1, raised |-> TRUE]
            ELSE [cs |-> rest.cs, ev |-> r.ev \o rest.ev,
                  wire |-> OnWire(r.ev, Head(msgs)) \o rest.wire,
                  calls |-> 1 + rest.calls, raised |-> rest.raised]

\* An exception has left the loop.
DownLoopLeft == \E i \in DOMAIN h_ws.ev : h_ws.ev[i].op = "raise"

DownFrame ==
    UNCHANGED <<cooldown, collect_cfg, stalled, RingVars, ClsVars, HapticVars,
                NetVars, ThreadVars, LifeVars, RxVars>>

\* await cmd_sender.connect() before the loop, while the host still
\* accepts connections: the first send of the cycle finds the connection
\* open and fails, the later ones find it closed.
DownStartup ==
    /\ ~h_ws.started
    /\ cmd_sender' = connect(cmd_sender, TRUE, h_ws.conns + 1)
    /\ h_ws' = [h_ws EXCEPT !.started = TRUE, !.conns = @ + 1,
                            !.ev = <<WsEvent("connect", TRUE)>>]
    /\ UNCHANGED <<CoreVars, HapticVars, NetVars, ThreadVars, LifeVars,
                   RxVars>>

\* One loop iteration and the send_message calls it makes; h_ws.calls and
\* h_ws.ev are the calls and the events of the latest iteration.
DownIteration ==
    /\ h_ws.started
    /\ ~DownLoopLeft
    /\ Len(h_ws.wire) < MaxLate
    /\ PollIteration \/ SampleIteration(Senders)
    /\ LET ws == SelectSeq(io'.out, LAMBDA m : m.ch = "ws")
           msgs == [i \in DOMAIN ws |->
                      [type |-> ws[i].type, arg |-> ws[i].arg,
                       down |-> ~HostUp]]
           r == send_all(cmd_sender, h_ws.conns + 1, msgs, HostUp)
       IN /\ cmd_sender' = r.cs
          /\ h_ws' = [h_ws EXCEPT !.calls = r.calls,
                                  !.conns = @ + Opened(r.ev),
                                  !.wire = @ \o r.wire,
                                  !.ev = IF r.raised
                                         THEN Append(r.ev, WsEvent("raise", TRUE))
                                         ELSE r.ev]
    /\ DownFrame

DownNext == DownStartup \/ DownIteration

DownSpec == Init /\ [][DownNext]_vars

\* =================================================================== claims
\* The state right after an Idle -> Collecting transition.
EntryState ==
    /\ stage2_pending
    /\ io.path = "sample"
    /\ io.out # <<>>
    /\ io.out[1].type = "stage1_detected"

\* A step that is an Idle -> Collecting transition.
EntryStep == ~stage2_pending /\ stage2_pending'

\* The latest iteration ran a hold check (io.mags are its magnitudes).
HoldChecked == io.path = "sample" /\ io.mags # None

\* C1: a Collecting phase causes exactly one classify_in_time_range call and
\* exactly one gesture_success / gesture_fail trigger: none while the phase
\* lasts, one of each once it has ended, whatever iterations follow.
C1_OneDispatchPerPhase ==
    /\ stage2_pending => h_classify = 0 /\ h_dispatch = 0
    /\ (~stage2_pending /\ stage2_start_time # None)
         => h_classify = 1 /\ h_dispatch = 1

\* A sample dispatched, and a poll tick then read a time past the same
\* deadline in the same tick.
C1_Witness ==
    /\ ~stage2_pending
    /\ h_last_dispatch # None
    /\ h_last_dispatch[1].path = "sample"
    /\ h_last_dispatch[1].time = clock
    /\ io.path = "poll"
    /\ io.t >= stage2_start_time[1] + h_last_dispatch[1].collect
    /\ h_dispatch = 1

\* C2: the session goes from Idle to Collecting on a sample received at ts
\* only if the entry scorer returned a probability >= threshold on that
\* sample and ts - last_stage1_time >= cooldown; otherwise it stays Idle.
C2_EntryOnlyIf ==
    [][EntryStep =>
         /\ io'.path = "sample"
         /\ io'.prob # None
         /\ io'.prob[1] >= S1_THRESHOLD
         /\ io'.t - last_stage1_time >= cooldown]_vars

\* An entry on a sample scored exactly at the threshold, exactly cooldown
\* after a sample-path dispatch.
C2_Witness ==
    /\ EntryState
    /\ h_last_dispatch # None
    /\ h_last_dispatch[1].path = "sample"
    /\ io.t = h_last_dispatch[1].time + cooldown
    /\ io.prob = Some(S1_THRESHOLD)

\* C3 (as amended): of two above-threshold entry probabilities less than
\* cooldown apart at most one opens a Collecting phase: two Idle ->
\* Collecting transitions are never less than cooldown apart.
C3_AtMostOneEntry ==
    [][(EntryStep /\ stage2_start_time # None)
         => stage2_start_time'[1] - stage2_start_time[1] >= cooldown]_vars

\* The latest two above-threshold results were less than cooldown apart.
SpikePair ==
    /\ Len(h_spikes) = 2
    /\ h_spikes[2][1] - h_spikes[1][1] < cooldown

\* The first spike opened a phase, the phase ended, and the second spike,
\* less than cooldown later, was scored in Idle and opened nothing.
C3_Witness ==
    /\ SpikePair
    /\ h_spikes[1][2]
    /\ ~h_spikes[2][2]
    /\ ~stage2_pending

\* C3 as stated: such a pair results in exactly one transition.
C3_ExactlyOneEntry ==
    SpikePair => (h_spikes[1][2] # h_spikes[2][2])

\* C4: after a dispatch on either path the next Idle -> Collecting
\* transition is on a sample received at least cooldown after the time the
\* dispatch recorded in last_stage1_time.
C4_CooldownAfterDispatch ==
    /\ [](~stage2_pending /\ h_last_dispatch # None
            => last_stage1_time = h_last_dispatch[1].time)
    /\ [][(EntryStep /\ h_last_dispatch # None)
            => io'.t - h_last_dispatch[1].time >= cooldown]_vars

\* An entry on the first sample the cooldown lets in after a poll-path
\* dispatch.
C4_Witness ==
    /\ EntryState
    /\ h_last_dispatch # None
    /\ h_last_dispatch[1].path = "poll"
    /\ io.t = h_last_dispatch[1].time + cooldown

\* C5: at an Idle -> Collecting transition the buffer is empty, and while
\* Collecting every buffered timestamp is >= stage2_start_time.
C5_BufferFresh ==
    /\ EntryState => timestamps = <<>>
    /\ stage2_pending =>
         \A i \in DOMAIN timestamps : timestamps[i] >= stage2_start_time[1]

\* A second Collecting phase that buffers a sample of the tick it began in.
C5_Witness ==
    /\ stage2_pending
    /\ h_last_dispatch # None
    /\ timestamps # <<>>
    /\ timestamps[1] = stage2_start_time[1]

\* C6: at an Idle -> Collecting transition on the sample received at ts the
\* collection starts at ts, the deadline is ts + the configured duration,
\* the still counter is 0, the holding flag is false and stage1_detected
\* carries the configured duration, whatever the previous cycle left.
C6_EntryResets ==
    EntryState =>
      /\ stage2_start_time = Some(io.t)
      /\ stage2_start_time[1] + stage2_collect_sec = io.t + collect_cfg
      /\ consecutive_hold_count = 0
      /\ ~is_holding
      /\ io.out[1] = WsMsg("stage1_detected", collect_cfg)

\* An entry after a cycle that a hold extended and the poll path ended.
C6_Witness ==
    /\ EntryState
    /\ h_last_dispatch # None
    /\ h_last_dispatch[1].path = "poll"
    /\ h_last_dispatch[1].collect # collect_cfg

\* C7: a still hold check on the sample received at ts that is the second
\* or a later one of its run leaves the session Collecting with the deadline
\* at exactly ts + HOLD_EXTEND_SEC, however many came before.
C7_ExtensionFromCheckTime ==
    (HoldChecked /\ IsStill(io.mags) /\ h_still_run >= 2) =>
      /\ stage2_pending
      /\ stage2_start_time[1] + stage2_collect_sec = io.t + HOLD_EXTEND_SEC

\* The deadline extended for the second time in a row.
C7_Witness ==
    /\ HoldChecked
    /\ IsStill(io.mags)
    /\ h_still_run = 3
    /\ stage2_start_time[1] + stage2_collect_sec = io.t + HOLD_EXTEND_SEC

\* C8: once holding is confirmed, the session leaves Collecting during the
\* still run only after a gap between samples of at least
\* HOLD_EXTEND_SEC - hold_check_interval.
C8_HoldNeverTimesOut ==
    [][(/\ stage2_pending
        /\ ~stage2_pending'
        /\ h_still_run >= 2
        /\ (io'.mags = None \/ IsStill(io'.mags)))
         => Max(h_max_gap, io'.t - h_last_sample[1])
              >= HOLD_EXTEND_SEC - hold_check_interval]_vars

\* A poll tick that reads a time past the configured deadline during a
\* still run and leaves the session Collecting.
C8_Witness ==
    /\ stage2_pending
    /\ h_still_run >= 2
    /\ io.path = "poll"
    /\ io.t > stage2_start_time[1] + collect_cfg
    /\ io.t - h_last_sample[1] < HOLD_EXTEND_SEC - hold_check_interval

\* C9: a hold check that is not still, the +infinity result included, sets
\* the still counter to 0 and the holding flag to false, and the deadline
\* is extended only by the second or a later still check of a new run.
C9_MotionResets ==
    /\ []((HoldChecked /\ ~IsStill(io.mags))
            => consecutive_hold_count = 0 /\ ~is_holding)
    /\ [][(stage2_pending /\ stage2_pending'
             /\ stage2_collect_sec' # stage2_collect_sec)
            => h_still_run' >= 2 /\ consecutive_hold_count' >= 2]_vars

\* A hold check on too little data after the deadline had been extended.
C9_Witness ==
    /\ stage2_pending
    /\ HoldChecked
    /\ io.mags = <<INF, INF>>
    /\ stage2_collect_sec # collect_cfg
    /\ consecutive_hold_count = 0
    /\ ~is_holding

\* C10: in a run of still hold checks hold_extended is sent once, by the
\* second check of the run and with remaining = -1; later checks of the run
\* send none.
C10_HoldExtendedOnce ==
    /\ h_run_emits = (IF h_still_run >= 2 THEN 1 ELSE 0)
    /\ \A i \in DOMAIN io.out :
         io.out[i].type = "hold_extended" =>
           /\ io.out[i] = WsMsg("hold_extended", -1)
           /\ HoldChecked
           /\ IsStill(io.mags)
           /\ h_still_run = 2

\* The third still check of a run: the deadline moves, nothing is sent.
C10_Witness ==
    /\ stage2_pending
    /\ HoldChecked
    /\ IsStill(io.mags)
    /\ h_still_run = 3
    /\ h_run_emits = 1
    /\ io.out = <<>>
    /\ stage2_start_time[1] + stage2_collect_sec = io.t + HOLD_EXTEND_SEC
    /\ is_holding

\* C11: when the stream has stalled while the session is Collecting, a poll
\* tick eventually finds the deadline passed and the session returns to
\* Idle (for every deadline within the run's horizon).
C11_StalledPhaseEnds ==
    (/\ stage2_pending
     /\ stalled
     /\ stage2_start_time[1] + stage2_collect_sec <= Horizon)
      ~> ~stage2_pending

\* A poll tick classified and dispatched after the stream had stalled.
C11_Witness ==
    /\ stalled
    /\ ~stage2_pending
    /\ io.path = "poll"
    /\ io.classify # None
    /\ h_classify = 1
    /\ h_dispatch = 1

\* The latest iteration ended a Collecting phase.
JustDispatched == io.classify # None

\* C12: a dispatch with a classifier result sends gesture_recognized, then
\* the command record if and only if the class id is in GESTURE_TO_COMMAND,
\* then the gesture_success haptic, and ends Idle with the buffer empty.
C12_ResultOutputsInOrder ==
    (/\ JustDispatched
     /\ \E i \in DOMAIN io.out :
          io.out[i].type \in {"gesture_recognized", "command", "gesture_success"})
      => /\ io.out[1].type = "gesture_recognized"
         /\ io.out[1].ch = "ws"
         /\ io.out = (IF io.out[1].arg \in GESTURE_TO_COMMAND
                      THEN <<io.out[1], WsMsg("command", io.out[1].arg),
                             Haptic("gesture_success")>>
                      ELSE <<io.out[1], Haptic("gesture_success")>>)
         /\ ~stage2_pending
         /\ timestamps = <<>>

\* A poll-path dispatch of a class that has a command.
C12_Witness ==
    /\ JustDispatched
    /\ io.path = "poll"
    /\ Len(io.out) = 3
    /\ io.out[2] = WsMsg("command", 3)
    /\ io.out[3] = Haptic("gesture_success")
    /\ ~stage2_pending

\* The classifier has no result for buffer buf and range <<t_start, t_end>>.
NoResultFor(buf, range) ==
    \/ Len(get_by_time_range(buf, range[1], range[2])) < 2
    \/ Round((range[2] - range[1]) * TARGET_FS, 4) < 2

\* C13: a dispatch for which the classifier has no result (fewer than 2
\* samples in the range, or a resampled length below 2) triggers the
\* gesture_fail haptic and sends nothing else; the session is Idle and the
\* cooldown starts at the dispatch time.
C13_NoResultFails ==
    [][(/\ stage2_pending
        /\ io'.classify # None
        /\ NoResultFor(IF io'.path = "sample" THEN add(timestamps, io'.t)
                       ELSE timestamps, io'.classify[1]))
         => /\ io'.out = <<Haptic("gesture_fail")>>
            /\ ~stage2_pending'
            /\ last_stage1_time' = clock']_vars

\* A sample past the deadline that is the only one of its collection.
C13_Witness ==
    /\ JustDispatched
    /\ io.path = "sample"
    /\ io.out = <<Haptic("gesture_fail")>>
    /\ ~stage2_pending
    /\ last_stage1_time = clock

\* C14 as stated: right after a dispatch on either path the buffer is
\* empty, the rate-limit clock is reset, last_stage1_time is the dispatch
\* time, the still counter is 0, the holding flag is false and
\* stage2_collect_sec is the configured duration.
C14_DispatchResetsAll ==
    JustDispatched =>
      /\ timestamps = <<>>
      /\ last_infer_time = None
      /\ last_stage1_time = h_last_dispatch[1].time
      /\ consecutive_hold_count = 0
      /\ ~is_holding
      /\ stage2_collect_sec = collect_cfg

\* C15: after any adds and clears the two deques have the same length, at
\* most maxlen, and hold exactly the last min(k, maxlen) samples added since
\* the latest clear, in arrival order (an add at capacity evicts the oldest).
C15_RingHoldsLatest ==
    LET k == Len(rb_added)
        n == IF k < buffer_size THEN k ELSE buffer_size
    IN /\ Len(rb_timestamps) = Len(rb_frames)
       /\ Len(rb_timestamps) <= buffer_size
       /\ Len(rb_timestamps) = n
       /\ \A i \in 1..n :
            <<rb_timestamps[i], rb_frames[i]>> = rb_added[k - n + i]

\* One more sample than the capacity was added, the last after the first
\* of another kind: the first is gone.
C15_Witness ==
    /\ Len(rb_added) = buffer_size + 1
    /\ Len(rb_timestamps) = buffer_size
    /\ rb_added[1] # rb_added[2]
    /\ rb_timestamps[1] = rb_added[2][1]
    /\ rb_frames[buffer_size] = rb_added[buffer_size + 1][2]

\* Whether i is the place in the buffer of the j-th returned entry.
IsNthInRange(i, j, t_start, t_end) ==
    /\ rb_timestamps[i] >= t_start
    /\ rb_timestamps[i] <= t_end
    /\ Cardinality({m \in 1..i : /\ rb_timestamps[m] >= t_start
                                 /\ rb_timestamps[m] <= t_end}) = j

\* The latest result is exactly the entries in the range, in arrival order.
RangeResultExact ==
    rb_out # None =>
      LET q == rb_out[1]
          inside == {i \in DOMAIN rb_timestamps :
                       /\ rb_timestamps[i] >= q.t_start
                       /\ rb_timestamps[i] <= q.t_end}
      IN /\ Len(q.times) = Cardinality(inside)
         /\ Len(q.frames) = Cardinality(inside)
         /\ \A i \in inside :
              \E j \in 1..Len(q.times) :
                /\ IsNthInRange(i, j, q.t_start, q.t_end)
                /\ q.times[j] = rb_timestamps[i]
                /\ q.frames[j] = rb_frames[i]
         /\ (q.t_start > q.t_end => q.times = <<>> /\ q.frames = <<>>)

\* C16: get_by_time_range(t_start, t_end) returns exactly the entries with
\* t_start <= timestamp <= t_end, in arrival order, nothing when none match
\* or t_start > t_end, and leaves the buffer as it was.
C16_RangeInclusive ==
    /\ []RangeResultExact
    /\ [][(rb_out' # None /\ rb_out' # rb_out)
            => UNCHANGED <<rb_timestamps, rb_frames>>]_vars

\* A range whose bounds are both timestamps in the buffer, with an entry
\* outside it between two inside.
C16_Witness ==
    /\ rb_out # None
    /\ rb_out[1].t_start = 2
    /\ rb_out[1].t_end = 2
    /\ Len(rb_out[1].times) = 2
    /\ Len(rb_timestamps) = 3
    /\ rb_timestamps[2] = 1

\* C17: maybe_detect runs no inference and returns no probability when the
\* buffer (the new sample included) holds fewer than T1 samples, or when
\* less than step_sec has passed since the latest inference of this Idle
\* period; two inferences with no entry or dispatch between them are at
\* least step_sec apart.
C17_RateLimited ==
    [][(/\ ~stage2_pending
        /\ io'.path = "sample"
        /\ \/ Len(add(timestamps, io'.t)) < T1
           \/ h_infer # None /\ io'.t - h_infer[1] < S1_STEP_SEC)
         => /\ io'.prob = None
            /\ ~stage2_pending'
            /\ h_infer' = h_infer]_vars

\* A sample in Idle, with enough samples buffered, that came less than
\* step_sec after an inference and was not scored.
C17_Witness ==
    /\ ~stage2_pending
    /\ io.path = "sample"
    /\ io.classify = None
    /\ io.prob = None
    /\ Len(timestamps) >= T1
    /\ h_infer # None
    /\ io.t - h_infer[1] < S1_STEP_SEC

\* The number of distinct timestamps among the samples of a range.
DistinctIn(buf, t_start, t_end) ==
    LET times == get_by_time_range(buf, t_start, t_end)
    IN Cardinality({times[i] : i \in DOMAIN times})

\* C18: the entry scorer runs no inference, and the candidate classifier
\* returns no result, whenever the samples selected for resampling carry
\* fewer than 2 distinct timestamps, two or more samples of the same
\* timestamp included.
C18_DistinctTimestamps ==
    [][/\ (/\ ~stage2_pending
           /\ io'.path = "sample"
           /\ DistinctIn(add(timestamps, io'.t),
                         io'.t - S1_WINDOW_SEC, io'.t) < 2)
            => io'.prob = None
       /\ (/\ stage2_pending
           /\ io'.classify # None
           /\ DistinctIn(IF io'.path = "sample" THEN add(timestamps, io'.t)
                         ELSE timestamps,
                         io'.classify[1][1], io'.classify[1][2]) < 2)
            => io'.out = <<Haptic("gesture_fail")>>]_vars

\* The number of samples, among the latest 50 of buf, within window_sec of
\* the latest timestamp.
Qualifying(buf) ==
    LET first == IF Len(buf) > 50 THEN Len(buf) - 49 ELSE 1
    IN Cardinality({i \in first..Len(buf) :
                      10 * (buf[Len(buf)] - buf[i]) <= MOTION_WINDOW_TENTHS})

\* C19: a hold check made on fewer than 3 qualifying samples measures
\* (+infinity, +infinity): it is not counted as still, the deadline is not
\* extended and no hold_extended is sent.
C19_FewSamplesNotStill ==
    [][(/\ stage2_pending
        /\ io'.path = "sample"
        /\ io'.mags # None
        /\ Qualifying(add(timestamps, io'.t)) < 3)
         => /\ io'.mags = <<INF, INF>>
            /\ h_still_run' = 0
            /\ consecutive_hold_count' = 0
            /\ (stage2_pending' => stage2_collect_sec' = stage2_collect_sec)
            /\ (io'.classify # None =>
                  io'.classify[1][2] = stage2_start_time[1] + stage2_collect_sec)
            /\ \A i \in DOMAIN io'.out : io'.out[i].type # "hold_extended"]_vars

\* A hold check on a buffer of at least 5 samples of which fewer than 3
\* lie within window_sec of the latest one.
C19_Witness ==
    /\ stage2_pending
    /\ io.path = "sample"
    /\ io.mags = <<INF, INF>>
    /\ Len(timestamps) >= MOTION_MIN_BUFFER
    /\ Qualifying(timestamps) < 3
    /\ consecutive_hold_count = 0

\* C20: with at least seq_len resampled frames the classifier scores the
\* sub-windows that start at 0, s, 2s, ... up to N - seq_len, where
\* s = max(1, round(step_sec * target_fs)), and returns the class and the
\* confidence of the most confident of them, the earliest one among equals.
C20_BestWindowEarliest ==
    (cl_out # None /\ cl_out[1].N >= SEQ_LEN2) =>
      LET o == cl_out[1]
          r == Round(o.step_sec * TARGET_FS, 100)
          s == IF r >= 1 THEN r ELSE 1
          starts == {k \in 0..(o.N - SEQ_LEN2) : k % s = 0}
          p(k) == cl_scores[k + 1].p_max
      IN /\ Len(o.res.scored) = Cardinality(starts)
         /\ \A i \in DOMAIN o.res.scored : o.res.scored[i] = (i - 1) * s
         /\ \E j \in starts :
              /\ o.res.best_id = Some(cl_scores[j + 1].pred_id)
              /\ o.res.best_prob = p(j)
              /\ \A k \in starts : /\ p(k) <= p(j)
                                    /\ k < j => p(k) < p(j)

\* Five start indices scored with a step of 2: a low confidence first,
\* then the same highest confidence twice with different classes, and a
\* skipped index in between; the class of the earlier one is returned.
C20_Witness ==
    /\ cl_out # None
    /\ Len(cl_scores) = 5
    /\ cl_out[1].res.scored = <<0, 2, 4>>
    /\ cl_scores[1].p_max = 50
    /\ cl_scores[3] = [pred_id |-> 15, p_max |-> 95]
    /\ cl_scores[4].p_max = 95
    /\ cl_scores[5] = [pred_id |-> 3, p_max |-> 95]
    /\ cl_out[1].res.best_id = Some(15)

\* C21: a send_message call made while not connected connects first and,
\* if that fails, drops the message without a send attempt; a failed send
\* marks the sender disconnected and is followed by one reconnect and no
\* second send; a message goes on the wire at most once, in its own call
\* only; a failure that leaves the sender disconnected makes the next call
\* connect first.
C21_SendAtMostOnce ==
    [][h_ws'.calls = h_ws.calls + 1 =>
         LET ev == h_ws'.ev
             msg == h_ws'.calls
             was_down == ~cmd_sender.connected \/ cmd_sender.ws = None
         IN /\ was_down => /\ ev # <<>>
                            /\ ev[1].op = "connect"
                            /\ ~ev[1].ok => ev = <<WsEvent("connect", FALSE)>>
            /\ Cardinality(Sends(ev)) <= 1
            /\ \A i \in Sends(ev) :
                 IF ev[i].ok THEN i = Len(ev) /\ cmd_sender'.connected
                 ELSE /\ Len(ev) = i + 1
                      /\ ev[i + 1].op = "connect"
                      /\ cmd_sender'.connected = ev[i + 1].ok
            /\ h_ws'.wire = IF WsEvent("send", TRUE) \in {ev[i] : i \in DOMAIN ev}
                            THEN Append(h_ws.wire, msg) ELSE h_ws.wire
            /\ ev[Len(ev)] = WsEvent("connect", FALSE) => ~cmd_sender'.connected
            /\ ~was_down => ev[1].op = "send"]_vars

\* The second message failed to send and its reconnect failed too; the
\* third call connected first and sent the third message, and the second
\* message never went on the wire.
C21_Witness ==
    /\ h_ws.calls = 3
    /\ h_ws.wire = <<1, 3>>
    /\ h_ws.ev = <<WsEvent("connect", TRUE), WsEvent("send", TRUE)>>
    /\ cmd_sender.connected
    /\ cmd_sender.ws = Some(2)

\* The value of a range lo..hi nearest to x.
Nearest(lo, hi, x) == IF x < lo THEN lo ELSE IF x > hi THEN hi ELSE x

\* The latest send call named a preset of the table.
NamedPreset(call) ==
    /\ call.args.preset_name # None
    /\ call.args.preset_name[1] \in DOMAIN HAPTIC_PRESETS

\* C22: every datagram HapticSender.send sends carries an intensity in
\* 1..255, a count in 1..10 and a duration in 50..500: the values of the
\* preset, or each explicit value moved to the nearest bound of its range
\* and unchanged when inside it.
C22_HapticRanges ==
    h_hp.call # None =>
      LET call == h_hp.call[1] IN
      \A n \in DOMAIN call.sent :
        LET data == call.sent[n].data IN
        /\ data[1] \in 1..255
        /\ data[2] \in 1..10
        /\ data[3] \in 50..500
        /\ IF NamedPreset(call)
           THEN LET pr == HAPTIC_PRESETS[call.args.preset_name[1]]
                IN data = <<pr.intensity, pr.count, pr.duration>>
           ELSE data = <<Nearest(1, 255, call.args.intensity[1]),
                         Nearest(1, 10, call.args.count[1]),
                         Nearest(50, 500, call.args.duration[1])>>

\* A datagram sent for an explicit triple with every value above its range.
C22_Witness ==
    /\ h_hp.call # None
    /\ h_hp.call[1].args.preset_name = None
    /\ h_hp.call[1].args.intensity = Some(256)
    /\ h_hp.call[1].args.count = Some(11)
    /\ h_hp.call[1].args.duration = Some(501)
    /\ Len(h_hp.call[1].sent) = 1
    /\ h_hp.call[1].sent[1].data = <<255, 10, 500>>

\* The latest send call was made with no peer address set.
SentNowhere ==
    h_hp.call # None /\ h_hp.call[1].before.phone_ip = NoIp

\* C23: a send call made while no peer address is set returns False,
\* creates no socket and sends no datagram, and leaves the sender and the
\* session as they were.
C23_NoPeerNoSend ==
    /\ [](SentNowhere =>
            /\ h_hp.call[1].ret = FALSE
            /\ h_hp.call[1].ev = <<>>
            /\ h_hp.call[1].sent = <<>>
            /\ haptic_sender = h_hp.call[1].before)
    /\ [][h_hp'.call # None => UNCHANGED SessionVars]_vars

\* A call for a preset of the table, whose transmission would have
\* succeeded, made before any peer address was set.
C23_Witness ==
    /\ SentNowhere
    /\ h_hp.call[1].args.preset_name = Some("gesture_success")
    /\ h_hp.call[1].a1 = "ok"
    /\ h_hp.call[1].ret = FALSE
    /\ haptic_sender.socket = None

\* The sendto calls of a send call.
Transmissions(ev) == {i \in DOMAIN ev : ev[i].op = "sendto"}

\* C24: a send call makes at most two transmissions and returns whether
\* one of them succeeded; when the first one fails with a socket error the
\* cached socket is dropped and exactly one retry is made, on a socket
\* created for it.
C24_OneRetry ==
    h_hp.call # None =>
      LET call == h_hp.call[1]
          ev == call.ev
          tx == Transmissions(ev)
      IN /\ Cardinality(tx) <= 2
         /\ call.ret = (\E i \in tx : ev[i].ok)
         /\ call.ret = (Len(call.sent) = 1)
         /\ \A i \in tx :
              ev[i].ok => i = Len(ev) /\ haptic_sender.socket = Some(ev[i].sock)
         /\ \A i \in tx :
              (~ev[i].ok /\ call.a1 = "send_fail" /\ \A j \in tx : j >= i) =>
                /\ Len(ev) > i
                /\ ev[i + 1].op = "socket"
                /\ IF ev[i + 1].ok
                   THEN /\ ev[i + 1].sock # ev[i].sock
                        /\ Len(ev) = i + 2
                        /\ ev[i + 2].op = "sendto"
                        /\ ev[i + 2].sock = ev[i + 1].sock
                        /\ haptic_sender.socket = Some(ev[i + 1].sock)
                   ELSE /\ Len(ev) = i + 1
                        /\ haptic_sender.socket = None

\* A first transmission on the cached socket failed and the retry on a new
\* socket succeeded.
C24_Witness ==
    /\ h_hp.call # None
    /\ h_hp.call[1].before.socket = Some(1)
    /\ h_hp.call[1].a1 = "send_fail"
    /\ h_hp.call[1].ret = TRUE
    /\ haptic_sender.socket = Some(2)
    /\ Len(h_hp.call[1].sent) = 1
    /\ h_hp.call[1].sent[1].sock = 2

\* C25: the haptic target address is the source address of the latest
\* datagram of exactly MSG_SIZE bytes, and unset until one has arrived.
C25_TargetIsLatestSender == phone_ip = h_net.wellformed_src

\* The latest iteration received a datagram of another length than MSG_SIZE.
Malformed(net) == net.dgram # None /\ net.dgram[1].len # MSG_SIZE

\* C26: an iteration that receives a datagram of another length than
\* MSG_SIZE runs the poll path: nothing is added to the buffer, the peer
\* address stays, and no entry and no hold check is made.
C26_MalformedDropped ==
    [][Malformed(h_net') =>
         /\ io'.path = "poll"
         /\ timestamps' \in {timestamps, clear}
         /\ phone_ip' = phone_ip
         /\ stage2_pending' => stage2_pending
         /\ last_hold_check_time' = last_hold_check_time
         /\ h_last_sample' = h_last_sample]_vars

\* The fields of the HapticSender that both threads have accessed.
SharedFields ==
    {a[2] : a \in {x \in h_acc : \E y \in h_acc : /\ y[1] # x[1]
                                                  /\ y[2] = x[2]}}

\* C27: whatever the interleaving of the send calls of the main loop and
\* of the listener thread, the peer address is the only field both of them
\* read or write.
C27_OnlyPeerAddressShared == SharedFields \subseteq {"phone_ip"}

\* C28: once main_async has left its loop and its shutdown has ended,
\* whether every close step succeeded or one of them failed, the sample
\* socket, the command connection and the haptic socket are closed.
C28_ShutdownClosesAll ==
    life.phase \in {"done", "failed"} =>
      ~life.imu_open /\ ~life.ws_open /\ ~life.haptic_open

\* main_async has left its loop.
LoopLeft == life.phase \notin {"new", "connected", "started", "loop"}

\* C29: an exception raised in the loop ends it for good: the loop is left
\* for the handlers and the shutdown steps only, and from then on no
\* iteration runs and the session is never touched again, whether it was
\* Idle or Collecting.
C29_ExceptionEndsLoop ==
    /\ [][life.phase = "loop" /\ io'.path = "raise" => life'.phase = "caught"]_vars
    /\ [][LoopLeft => /\ life'.phase \notin {"new", "connected", "started", "loop"}
                      /\ UNCHANGED SessionVars]_vars
    /\ [][life.phase = "caught" /\ life' # life => life'.phase = "stop1"]_vars

\* An exception was raised during a collection; the shutdown has begun and
\* the session is as the exception left it.
C29_Witness ==
    /\ life.phase = "stop1"
    /\ life.cause = "exception"
    /\ stage2_pending
    /\ io.path = "raise"

\* C30: a failed bind of the sample socket does not end the pipeline, and
\* does not leave the listener thread and the command connection started
\* with no main loop.
C30_BindFailureSurvived ==
    life.bind = "failed" =>
      /\ life.phase # "returned"
      /\ ~(life.rx_thread = "running" /\ life.phase # "loop")

\* The messages the listener is to relay: JSON objects of type
\* haptic_request that name a non-empty preset.
IsHapticRequest(m) ==
    /\ m.json
    /\ m.dict
    /\ m.type = Some("haptic_request")
    /\ m.preset \notin {None, Some("")}

\* C31: a message the listener receives causes exactly one
\* HapticSender.send(preset) call, with the preset it names and no other
\* argument, when it is a JSON object of type haptic_request with a
\* non-empty preset, and no send call otherwise; in both cases the listener
\* goes on to its next receive; a preset that is not in the table puts no
\* datagram on the wire.
C31_RelayExactlyRequests ==
    haptic_receiver.last # None =>
      LET h == haptic_receiver.last[1] IN
      /\ h.sends = (IF IsHapticRequest(h.msg) THEN 1 ELSE 0)
      /\ h.sends = 1 =>
           /\ h_hp.call # None
           /\ h_hp.call[1].args
                = [preset_name |-> h.msg.preset, intensity |-> None,
                   count |-> None, duration |-> None]
      /\ h.sends = 0 => h_hp.call = None
      /\ h.msg.preset = Some("unknown") /\ h_hp.call # None =>
           h_hp.call[1].sent = <<>> /\ h_hp.call[1].ev = <<>>
      /\ haptic_receiver.pc = "inner"

\* A haptic_request naming mode_drawing has been relayed and sent.
C31_Witness ==
    /\ haptic_receiver.last # None
    /\ haptic_receiver.last[1].msg
         = [json |-> TRUE, dict |-> TRUE, type |-> Some("haptic_request"),
            preset |-> Some("mode_drawing")]
    /\ haptic_receiver.last[1].sends = 1
    /\ h_hp.call # None
    /\ Len(h_hp.call[1].sent) = 1
    /\ h_hp.call[1].sent[1].data = <<180, 1, 120>>

\* C32: while a Collecting phase lasts, no step moves its deadline
\* stage2_start_time + stage2_collect_sec to an earlier time.
C32_DeadlineNeverDecreases ==
    [][stage2_pending /\ stage2_pending'
         /\ stage2_start_time' = stage2_start_time
       => stage2_collect_sec' >= stage2_collect_sec]_vars

\* C33: every step that calls the classifier, on the poll path or on the
\* sample path, calls it while Collecting with t_start = the collection
\* start and t_end = the deadline in force before the step (the start plus
\* the collection duration, hold extensions included); the window it
\* classifies holds the buffered samples stamped from t_start to t_end, so
\* no sample stamped after the deadline, and not the sample whose arrival
\* after the deadline triggers the dispatch.
C33_ClassifiedWindow ==
    [][io'.classify # None =>
         LET t_start == io'.classify[1][1]
             t_end == io'.classify[1][2]
             window == io'.classify[1][3]
             buf == IF io'.path = "sample" THEN add(timestamps, io'.t)
                    ELSE timestamps
         IN /\ stage2_pending
            /\ t_start = stage2_start_time[1]
            /\ t_end = stage2_start_time[1] + stage2_collect_sec
            /\ io'.t >= t_end
            /\ window = SelectSeq(buf, LAMBDA t : t_start <= t /\ t <= t_end)
            /\ \A i \in DOMAIN window : window[i] <= t_end
            /\ io'.path = "sample" /\ io'.t > t_end =>
                 /\ buf[Len(buf)] = io'.t
                 /\ \A i \in DOMAIN window : window[i] # io'.t]_vars

\* A sample stamped after an extended deadline has triggered the dispatch
\* of a collection of at least two samples.
C33_Witness ==
    /\ io.classify # None
    /\ io.path = "sample"
    /\ io.t > io.classify[1][2]
    /\ io.classify[1][2] - io.classify[1][1] > collect_cfg
    /\ Len(io.classify[1][3]) >= 2
    /\ \E i \in DOMAIN io.out : io.out[i].type = "gesture_recognized"

\* C34: no step taken while Collecting runs the Stage-1 network, the step
\* that dispatches included; and when the network runs after a dispatch,
\* the buffer holds at least T1 samples, all of them received after that
\* dispatch.
C34_NoEntryScoringWhileCollecting ==
    [][/\ stage2_pending => io'.prob = None
       /\ io'.prob # None =>
            LET buf == add(timestamps, io'.t) IN
            /\ io'.path = "sample"
            /\ Len(buf) >= T1
            /\ h_last_dispatch # None =>
                 \A i \in DOMAIN buf : buf[i] >= h_last_dispatch[1].time]_vars

\* The Stage-1 network has run on a sample after a dispatch that the
\* sample path made.
C34_Witness ==
    /\ io.prob # None
    /\ ~stage2_pending
    /\ h_last_dispatch # None
    /\ h_last_dispatch[1].path = "sample"
    /\ Len(timestamps) >= T1

\* C35: a sample received while Collecting at or after the deadline in
\* force, on which a hold check is due and finds the arm still for the
\* second or a later consecutive time, moves the deadline to
\* ts + HOLD_EXTEND_SEC and dispatches nothing: the session stays
\* Collecting and the classifier is not called.
C35_HoldCheckBeforeDeadlineTest ==
    [][/\ stage2_pending
       /\ io'.path = "sample"
       /\ io'.t >= stage2_start_time[1] + stage2_collect_sec
       /\ io'.t - last_hold_check_time >= hold_check_interval
       /\ io'.mags # None
       /\ IsStill(io'.mags)
       /\ consecutive_hold_count >= 1
       => /\ stage2_pending'
          /\ stage2_start_time' = stage2_start_time
          /\ stage2_start_time'[1] + stage2_collect_sec'
               = io'.t + HOLD_EXTEND_SEC
          /\ io'.classify = None
          /\ Dispatches(io'.out) = 0
          /\ h_classify' = h_classify]_vars

\* The second still check in a row fell on a sample stamped at the
\* configured deadline: the deadline has moved and the session is still
\* Collecting.
C35_Witness ==
    /\ stage2_pending
    /\ io.path = "sample"
    /\ io.t = stage2_start_time[1] + collect_cfg
    /\ io.mags # None
    /\ IsStill(io.mags)
    /\ h_still_run = 2
    /\ consecutive_hold_count = 2
    /\ stage2_collect_sec = collect_cfg + HOLD_EXTEND_SEC
    /\ \E i \in DOMAIN io.out : io.out[i].type = "hold_extended"

\* The session's fields and the buffer.
SessionFields ==
    <<stage2_pending, stage2_start_time, stage2_collect_sec,
      last_stage1_time, last_hold_check_time, consecutive_hold_count,
      is_holding, last_infer_time, timestamps>>

\* C36: a poll iteration made while Idle, or while Collecting before the
\* deadline, changes no session field, leaves the buffer as it is and
\* sends nothing.  A hold check is made only on a sample received while
\* Collecting, at least hold_check_interval after the previous check and
\* after the entry; and while a Collecting phase lasts, the still counter,
\* the holding flag and the deadline change only on a step that makes a
\* hold check.
C36_PollChangesNothing ==
    [][/\ /\ io'.path = "poll"
          /\ \/ ~stage2_pending
             \/ io'.t < stage2_start_time[1] + stage2_collect_sec
          => /\ UNCHANGED SessionFields
             /\ io'.out = <<>>
             /\ io'.classify = None
             /\ io'.mags = None
       /\ io'.mags # None =>
            /\ io'.path = "sample"
            /\ stage2_pending
            /\ io'.t - last_hold_check_time >= hold_check_interval
            /\ last_hold_check_time >= stage2_start_time[1]
            /\ io'.t - stage2_start_time[1] >= hold_check_interval
            /\ last_hold_check_time' = io'.t \/ ~stage2_pending'
       /\ stage2_pending /\ stage2_pending' /\ io'.mags = None =>
            UNCHANGED <<consecutive_hold_count, is_holding,
                        stage2_collect_sec, last_hold_check_time>>]_vars

\* A poll iteration has been made during a collection, after a first still
\* check and before the deadline.
C36_Witness ==
    /\ io.path = "poll"
    /\ stage2_pending
    /\ io.classify = None
    /\ consecutive_hold_count = 1
    /\ last_hold_check_time > stage2_start_time[1]
    /\ io.t > last_hold_check_time
    /\ io.t < stage2_start_time[1] + stage2_collect_sec

\* C37: when the Stage-1 network returns a probability at or above the
\* threshold on a sample received less than cooldown after the last entry
\* or dispatch, the session stays Idle, the buffer keeps its samples and
\* the new one, the entry time, the collection fields and the hold state
\* are unchanged, nothing is sent, and the detector's last_infer_time is
\* the sample's time.
C37_SpikeInCooldownIgnored ==
    [][/\ ~stage2_pending
       /\ io'.path = "sample"
       /\ io'.prob # None
       /\ io'.prob[1] >= S1_THRESHOLD
       /\ io'.t - last_stage1_time < cooldown
       => /\ ~stage2_pending'
          /\ timestamps' = add(timestamps, io'.t)
          /\ UNCHANGED <<last_stage1_time, stage2_start_time,
                         stage2_collect_sec, last_hold_check_time,
                         consecutive_hold_count, is_holding>>
          /\ io'.out = <<>>
          /\ io'.classify = None
          /\ last_infer_time' = Some(io'.t)]_vars

\* A probability above the threshold has been ignored on the last tick of
\* a cooldown.
C37_Witness ==
    /\ ~stage2_pending
    /\ io.path = "sample"
    /\ io.prob # None
    /\ io.prob[1] >= S1_THRESHOLD
    /\ io.t - last_stage1_time = cooldown - 1
    /\ io.out = <<>>
    /\ last_infer_time = Some(io.t)
    /\ Len(timestamps) >= T1

\* C38: within a Collecting phase hold_extended has been sent once for
\* each run of consecutive still hold checks that has reached two checks:
\* the step on which a run reaches two sends it, and no other step of the
\* phase does, a check after motion has interrupted a confirmed hold
\* included.
C38_OneNoticePerConfirmedRun ==
    [][stage2_pending =>
         LET sent == Cardinality({i \in DOMAIN io'.out :
                                    io'.out[i].type = "hold_extended"})
             reached == /\ io'.mags # None
                        /\ IsStill(io'.mags)
                        /\ h_still_run = 1
         IN /\ sent = (IF reached THEN 1 ELSE 0)
            /\ stage2_pending' => /\ h_phase'[1] = h_phase'[2]
                                  /\ h_phase'[2] = h_phase[2] + sent]_vars

\* hold_extended has just been sent for the second time in one phase.
C38_Witness ==
    /\ stage2_pending
    /\ h_phase = <<2, 2>>
    /\ consecutive_hold_count = 2
    /\ is_holding
    /\ \E i \in DOMAIN io.out : io.out[i].type = "hold_extended"

\* C39: while the host refuses every connection and every send, from the
\* start of the loop to the first dispatch, no call ends the loop and
\* nothing goes on the wire; an entry probability outside the cooldown
\* opens the collection and triggers the entry haptic, a second
\* consecutive still check moves the deadline, a poll at or after the
\* deadline dispatches, and the dispatch calls the classifier for the only
\* time of the cycle, triggers one result haptic and leaves the session
\* Idle with the buffer cleared and the cooldown started.  Nothing that was
\* sent during that cycle is on the wire at any later time.
C39_HostDownCycle ==
    [][/\ \A i \in DOMAIN h_ws'.wire : ~h_ws'.wire[i].down
       /\ h_ws.started /\ ~HostUp =>
            /\ h_ws'.wire = <<>>
            /\ h_ws'.calls > 0 => ~cmd_sender'.connected
            /\ \A i \in DOMAIN h_ws'.ev : h_ws'.ev[i].op # "raise"
            /\ h_ws'.calls = Cardinality({i \in DOMAIN io'.out :
                                            io'.out[i].ch = "ws"})
            /\ /\ ~stage2_pending
               /\ io'.prob # None
               /\ io'.prob[1] >= S1_THRESHOLD
               /\ io'.t - last_stage1_time >= cooldown
               => /\ stage2_pending'
                  /\ stage2_start_time' = Some(io'.t)
                  /\ \E i \in DOMAIN io'.out :
                       io'.out[i] = Haptic("stage1_detected")
            /\ /\ stage2_pending
               /\ io'.mags # None
               /\ IsStill(io'.mags)
               /\ consecutive_hold_count >= 1
               => /\ stage2_pending'
                  /\ stage2_start_time'[1] + stage2_collect_sec'
                       = io'.t + HOLD_EXTEND_SEC
            /\ /\ stage2_pending
               /\ io'.path = "poll"
               /\ io'.t >= stage2_start_time[1] + stage2_collect_sec
               => ~stage2_pending'
            /\ stage2_pending /\ ~stage2_pending' =>
                 /\ io'.classify # None
                 /\ h_classify = 0
                 /\ h_classify' = 1
                 /\ Dispatches(io'.out) = 1
                 /\ timestamps' = <<>>
                 /\ last_infer_time' = None
                 /\ last_stage1_time' = clock'
                 /\ HostUp'
            /\ io'.classify # None => stage2_pending /\ ~stage2_pending']_vars

\* A cycle with a hold extension has been dispatched with a recognized
\* gesture while the host was down: the calls were made, nothing is on the
\* wire, the session is Idle again.
C39_Witness ==
    /\ h_ws.started
    /\ io.classify # None
    /\ h_last_dispatch # None
    /\ h_last_dispatch[1].collect > collect_cfg
    /\ \E i \in DOMAIN io.out : io.out[i].type = "gesture_recognized"
    /\ Dispatches(io.out) = 1
    /\ h_ws.calls >= 1
    /\ h_ws.wire = <<>>
    /\ ~cmd_sender.connected
    /\ ~stage2_pending
    /\ timestamps = <<>>

\* What the listener thread does at most once the stop flag is set: one
\* connection attempt or one message, a closed connection when it has
\* ended.
StopBounds(conns) ==
    /\ haptic_receiver.late_conn <= conns
    /\ haptic_receiver.late_msgs <= 1
    /\ haptic_receiver.late_conn + haptic_receiver.late_msgs <= 1
    /\ haptic_receiver.pc = "ended" =>
         haptic_receiver.stop /\ ~haptic_receiver.ws

\* Once the flag is set the thread ends, and a stop() that waits in join
\* returns, whether the thread has ended or not.
StopEnds ==
    /\ haptic_receiver.stop ~> haptic_receiver.pc = "ended"
    /\ haptic_receiver.main = "joining" ~> haptic_receiver.main = "returned"

\* C40 as stated: once stop() has set the stop flag the listener thread
\* starts no connection attempt, handles at most one message, has closed
\* its connection when it ends, and ends; stop() returns.
C40_NoConnectAfterStop == [](StopBounds(0)) /\ StopEnds

\* C40: once stop() has set the stop flag the listener thread starts at
\* most one connection attempt (the one whose loop test it had passed) or
\* handles at most one message (the one it was receiving), not both, has
\* closed its connection when it ends, and ends, provided each connect,
\* recv and sleep call returns; stop() returns from its join whether the
\* thread has ended or not.
C40_StopQuiesces == [](StopBounds(1)) /\ StopEnds

\* The thread, which had passed its loop test when the flag was set, has
\* made its connection attempt after it, closed the connection and ended;
\* stop() has returned.
C40_Witness ==
    /\ haptic_receiver.stop
    /\ haptic_receiver.main = "returned"
    /\ haptic_receiver.pc = "ended"
    /\ haptic_receiver.late_conn = 1
    /\ ~haptic_receiver.ws
====
